---------------------------- MODULE Spec2Model ----------------------------
(***************************************************************************)
(* Green DeFi lending protocol: the LendingPool ledger, the kinked         *)
(* InterestRateModel, the GreenRewardManager credit registry and the       *)
(* LeaderboardTracker ranking, modelled from the Solidity contracts.       *)
(*                                                                         *)
(* Amounts are uint256 in the contracts; every value the model reaches is  *)
(* far below 2^256, so the only arithmetic failure that can occur is a     *)
(* subtraction below zero, which Solidity 0.8 turns into a revert (Panic). *)
(* block.timestamp is counted in whole days: the accrual formula divides   *)
(* by (365 days * 100), and with timestamps that are multiples of one day  *)
(* the factor 86400 cancels exactly out of numerator and denominator.      *)
(***************************************************************************)
EXTENDS Integers, Sequences, FiniteSets, TLC

(***************************************************************************)
(* Bounds of the model.                                                    *)
(***************************************************************************)
\* externally owned accounts that exist at all
NumUsers == 4
\* a user's deposited never exceeds this
MaxDeposit == 4
\* block.timestamp (days) never exceeds this
MaxTime == 36500
\* the credit registry mints at most this many credits
MaxTokens == 2
\* the tracker alone receives at most this many accepted updateScore calls
MaxUpdates == 4
\* one user holds at most this many credits when the discount is examined
MaxCredits == 6
\* a user's stake in the vault never exceeds this
MaxStake == 4
\* what is sent to the vault without staking never exceeds this in total
MaxDonated == 2
\* the vault's owner creates at most this many projects
MaxProjects == 1
\* LeaderboardTracker.LEADERBOARD_SIZE is 100 in the source; the model keeps
\* the same code with a capacity small enough for NumUsers users to fill it
LEADERBOARD_SIZE == 3

(***************************************************************************)
(* Program constants.                                                      *)
(***************************************************************************)
MAX_BORROW_RATIO == 80
RESERVE_FACTOR == 10
DAYS_PER_YEAR == 365
BASE_RATE_REDUCTION == 10
MAX_RATE_REDUCTION == 50
MIN_CARBON_TONS == 1

ZeroAddress == 0
Users == 1..NumUsers
\* the accounts that use the lending pool
Borrowers == {1, 2}
\* the deploying account: owner of every contract and the Guardian oracle
Deployer == NumUsers + 1
ManagerAddr == NumUsers + 2
TrackerAddr == NumUsers + 3

\* amounts tried by callers of deposit, borrow and withdraw
Amounts == {0, 2}
\* msg.value tried by callers of repay
RepayAmounts == {0, 10}
\* how far one block can be from the previous one, in days
TickDays == {18250}
\* parameters an owner passes to updateModel
BaseRates == {0, 2}
Multipliers == {0, 10}
JumpMultipliers == {0, 100}
Kinks == {50, 80, 101}
\* pool totals and reserve factors a caller asks the rate model about
PoolDeposits == {0, 10, 1000}
PoolBorrows == {0, 5, 8, 9, 12, 800, 900}
ReserveFactors == {10, 100, 101}
\* base rates the discounted rate is asked for
DiscountBaseRates == {0, 10, 15}
\* Guardian verification ids the oracle can submit
VerificationIds == {"vc-1", "vc-2"}
\* carbonTons the oracle submits for one credit
Tons == {0, 1, 9, 50}
\* carbonTons submitted while the contracts are being re-pointed
AdminTons == {1}
\* carbonTons of one updateScore call: what an accepted credit passes on
BoardTons == {1, 2}

VARIABLES
    now,                  \* block.timestamp, in days
    \* LendingPool
    userAccounts, poolStats, reserveBalance, balance,
    \* InterestRateModel
    baseRatePerYear, multiplierPerYear, jumpMultiplierPerYear, kink,
    \* GreenRewardManager
    carbonNFTs, userProfiles, usedVerificationIds, nextTokenId,
    guardianOracle, leaderboardTracker,
    \* LeaderboardTracker
    userScores, topContributors, totalUsers, totalCarbonOffset,
    greenRewardManager,
    \* the receipt of the last transaction sent to the LendingPool: what was
    \* called, by whom, and whether it was committed or reverted
    lastTx,
    \* the events the GreenRewardManager and the LeaderboardTracker emitted in
    \* the latest transaction (none when it reverted or went elsewhere)
    events,
    \* ReentrancyGuard's _status of the pool
    status,
    \* the pool call that has reached its outbound transfer and has not
    \* returned yet: the call, the storage it started from, and the latest
    \* call back into the pool made from inside the transfer
    pending,
    \* ClimateFundVault: storage, and address(this).balance
    stakes, totalStaked, rewardRatePerYear, greenToken, projects,
    totalProjectsFunded, vaultBalance,
    \* the interestPaid of every Repaid event the pool has emitted, added up
    totalInterestPaid,
    \* the last read-only (view) call: the function, its arguments, whether
    \* it returned, and the value it returned
    lastCall

poolVars == <<userAccounts, poolStats, reserveBalance, balance>>
rateVars == <<baseRatePerYear, multiplierPerYear, jumpMultiplierPerYear, kink>>
greenVars == <<carbonNFTs, userProfiles, usedVerificationIds, nextTokenId,
               guardianOracle, leaderboardTracker>>
boardVars == <<userScores, topContributors, totalUsers, totalCarbonOffset,
               greenRewardManager>>
guardVars == <<status, pending>>
vaultVars == <<stakes, totalStaked, rewardRatePerYear, greenToken, projects,
               totalProjectsFunded, vaultBalance>>
vars == <<now, poolVars, rateVars, greenVars, boardVars, lastTx, events, guardVars,
          vaultVars, totalInterestPaid, lastCall>>

Min(a, b) == IF a <= b THEN a ELSE b

RECURSIVE SumOver(_, _)
SumOver(f, S) ==
    IF S = {} THEN 0
    ELSE LET x == CHOOSE y \in S : TRUE IN f[x] + SumOver(f, S \ {x})

(***************************************************************************)
(* Transactions.  A handler is an operator from the state before the call  *)
(* to a result [ok, err, st]: st is the state the body has produced when   *)
(* it returns or when a require fails.  Execute is the EVM's commit rule:  *)
(* a reverted call leaves the state it started from.                       *)
(***************************************************************************)
Done(st) == [ok |-> TRUE, err |-> "", st |-> st]
Revert(msg, st) == [ok |-> FALSE, err |-> msg, st |-> st]

ExecuteKeepPartial(pre, res) == res.st

Execute(pre, res) == IF res.ok THEN res.st ELSE pre

(***************************************************************************)
(* InterestRateModel                                                       *)
(***************************************************************************)
RateState == [baseRatePerYear |-> baseRatePerYear,
              multiplierPerYear |-> multiplierPerYear,
              jumpMultiplierPerYear |-> jumpMultiplierPerYear, kink |-> kink]

\* what a view call hands back: a value, or a revert
Returns(value) == [ok |-> TRUE, value |-> value]
Panics == [ok |-> FALSE, value |-> 0]

getBorrowRateDroppingNormal(totalDeposits, totalBorrows) ==
    IF totalDeposits = 0 THEN baseRatePerYear
    ELSE LET utilization == (totalBorrows * 100) \div totalDeposits IN
         IF utilization <= kink
         THEN baseRatePerYear + (utilization * multiplierPerYear) \div 100
         ELSE baseRatePerYear + ((utilization - kink) * jumpMultiplierPerYear) \div 100

getBorrowRateExcessFromZero(totalDeposits, totalBorrows) ==
    IF totalDeposits = 0 THEN baseRatePerYear
    ELSE LET utilization == (totalBorrows * 100) \div totalDeposits IN
         IF utilization <= kink
         THEN baseRatePerYear + (utilization * multiplierPerYear) \div 100
         ELSE LET normalRate == baseRatePerYear + (kink * multiplierPerYear) \div 100
              IN normalRate + (utilization * jumpMultiplierPerYear) \div 100

getBorrowRate(totalDeposits, totalBorrows) ==
    IF totalDeposits = 0 THEN baseRatePerYear
    ELSE LET utilization == (totalBorrows * 100) \div totalDeposits IN
         IF utilization <= kink
         THEN baseRatePerYear + (utilization * multiplierPerYear) \div 100
         ELSE LET normalRate == baseRatePerYear + (kink * multiplierPerYear) \div 100
                  excessUtil == utilization - kink
              IN normalRate + (excessUtil * jumpMultiplierPerYear) \div 100

getUtilizationRate(totalDeposits, totalBorrows) ==
    IF totalDeposits = 0 THEN 0 ELSE (totalBorrows * 100) \div totalDeposits

getSupplyRateAddingReserve(totalDeposits, totalBorrows, reserveFactor) ==
    IF totalDeposits = 0 THEN Returns(0)
    ELSE LET borrowRate == getBorrowRate(totalDeposits, totalBorrows)
             utilization == (totalBorrows * 100) \div totalDeposits
             rateToPool == (borrowRate * (100 + reserveFactor)) \div 100
         IN Returns((rateToPool * utilization) \div 100)

\* 100 - reserveFactor is a checked subtraction
getSupplyRate(totalDeposits, totalBorrows, reserveFactor) ==
    IF totalDeposits = 0 THEN Returns(0)
    ELSE LET borrowRate == getBorrowRate(totalDeposits, totalBorrows)
             utilization == (totalBorrows * 100) \div totalDeposits
         IN IF reserveFactor > 100 THEN Panics
            ELSE LET rateToPool == (borrowRate * (100 - reserveFactor)) \div 100
                 IN Returns((rateToPool * utilization) \div 100)

\* the constructor stores its arguments as they are
constructModel(newBaseRate, newMultiplier, newJumpMultiplier, newKink) ==
    [baseRatePerYear |-> newBaseRate, multiplierPerYear |-> newMultiplier,
     jumpMultiplierPerYear |-> newJumpMultiplier, kink |-> newKink]

updateModelByAnyone(R, sender, newBaseRate, newMultiplier, newJumpMultiplier, newKink) ==
    IF ~(newKink <= 100) THEN Revert("Kink must be <= 100", R)
    ELSE Done([baseRatePerYear |-> newBaseRate, multiplierPerYear |-> newMultiplier,
               jumpMultiplierPerYear |-> newJumpMultiplier, kink |-> newKink])

\* onlyOwner: the owner of every contract is the deploying account
updateModel(R, sender, newBaseRate, newMultiplier, newJumpMultiplier, newKink) ==
    IF sender # Deployer THEN Revert("OwnableUnauthorizedAccount", R)
    ELSE IF ~(newKink <= 100) THEN Revert("Kink must be <= 100", R)
    ELSE Done([baseRatePerYear |-> newBaseRate, multiplierPerYear |-> newMultiplier,
               jumpMultiplierPerYear |-> newJumpMultiplier, kink |-> newKink])

\* a view call: nothing but the caller's knowledge changes
\* no call is executing: the chain runs one transaction at a time
Idle == ~pending.active

ViewCall(fn, args, res) ==
    /\ Idle
    /\ lastCall' = [fn |-> fn, args |-> args, ok |-> res.ok, value |-> res.value]
    /\ UNCHANGED <<now, poolVars, rateVars, greenVars, boardVars, lastTx, events, guardVars, vaultVars,
                   totalInterestPaid>>

GetBorrowRate(totalDeposits, totalBorrows) ==
    ViewCall("getBorrowRate", <<totalDeposits, totalBorrows>>,
             Returns(getBorrowRate(totalDeposits, totalBorrows)))

GetSupplyRate(totalDeposits, totalBorrows, reserveFactor) ==
    ViewCall("getSupplyRate", <<totalDeposits, totalBorrows, reserveFactor>>,
             getSupplyRate(totalDeposits, totalBorrows, reserveFactor))

UpdateModel(sender, newBaseRate, newMultiplier, newJumpMultiplier, newKink) ==
    LET post == Execute(RateState, updateModel(RateState, sender, newBaseRate,
                                               newMultiplier, newJumpMultiplier, newKink))
    IN  /\ Idle
        /\ baseRatePerYear' = post.baseRatePerYear
        /\ multiplierPerYear' = post.multiplierPerYear
        /\ jumpMultiplierPerYear' = post.jumpMultiplierPerYear
        /\ kink' = post.kink
        /\ events' = {}
        /\ UNCHANGED <<now, poolVars, greenVars, boardVars, lastTx, guardVars, lastCall, vaultVars,
                       totalInterestPaid>>

(***************************************************************************)
(* GreenRewardManager: the rate discount                                   *)
(***************************************************************************)
getAdjustedInterestRateUncapped(user, baseRate) ==
    LET profile == userProfiles[user] IN
    IF profile.activeNFTCount = 0 THEN baseRate
    ELSE LET reductionPercent == profile.activeNFTCount * BASE_RATE_REDUCTION
             reduction == (baseRate * reductionPercent) \div 100
         IN baseRate - reduction

getAdjustedInterestRate(user, baseRate) ==
    LET profile == userProfiles[user] IN
    IF profile.activeNFTCount = 0 THEN baseRate
    ELSE LET reductionPercent ==
                 Min(profile.activeNFTCount * BASE_RATE_REDUCTION, MAX_RATE_REDUCTION)
             reduction == (baseRate * reductionPercent) \div 100
         IN baseRate - reduction

(***************************************************************************)
(* LendingPool                                                             *)
(***************************************************************************)
PoolState == [userAccounts |-> userAccounts, poolStats |-> poolStats,
              reserveBalance |-> reserveBalance, balance |-> balance]

\* msg.value is part of address(this).balance from the start of a payable call
receive(L, value) == [L EXCEPT !.balance = @ + value]

\* payable(to).transfer(amount)
send(L, amount) == [L EXCEPT !.balance = @ - amount]

totalOwedOf(account) == account.borrowed + account.accruedInterest

interestForNoPercent(borrowed, adjustedRate, timeElapsed) ==
    (borrowed * adjustedRate * timeElapsed) \div DAYS_PER_YEAR

interestForRoundingUp(borrowed, adjustedRate, timeElapsed) ==
    (borrowed * adjustedRate * timeElapsed + DAYS_PER_YEAR * 100 - 1)
        \div (DAYS_PER_YEAR * 100)

interestFor(borrowed, adjustedRate, timeElapsed) ==
    (borrowed * adjustedRate * timeElapsed) \div (DAYS_PER_YEAR * 100)

accrueInterestKeepingClock(L, user) ==
    LET account == L.userAccounts[user] IN
    IF account.borrowed = 0
    THEN L
    ELSE LET timeElapsed == now - account.lastUpdateTime IN
         IF timeElapsed = 0 THEN L
         ELSE LET baseRate == getBorrowRate(L.poolStats.totalDeposits,
                                            L.poolStats.totalBorrows)
                  adjustedRate == getAdjustedInterestRate(user, baseRate)
                  interest == interestFor(account.borrowed, adjustedRate, timeElapsed)
              IN [L EXCEPT !.userAccounts[user].accruedInterest = @ + interest,
                           !.userAccounts[user].lastUpdateTime = now]

accrueInterestUndiscounted(L, user) ==
    LET account == L.userAccounts[user] IN
    IF account.borrowed = 0
    THEN [L EXCEPT !.userAccounts[user].lastUpdateTime = now]
    ELSE LET timeElapsed == now - account.lastUpdateTime IN
         IF timeElapsed = 0 THEN L
         ELSE LET baseRate == getBorrowRate(L.poolStats.totalDeposits,
                                            L.poolStats.totalBorrows)
                  interest == interestFor(account.borrowed, baseRate, timeElapsed)
              IN [L EXCEPT !.userAccounts[user].accruedInterest = @ + interest,
                           !.userAccounts[user].lastUpdateTime = now]

accrueInterest(L, user) ==
    LET account == L.userAccounts[user] IN
    IF account.borrowed = 0
    THEN [L EXCEPT !.userAccounts[user].lastUpdateTime = now]
    ELSE LET timeElapsed == now - account.lastUpdateTime IN
         IF timeElapsed = 0 THEN L
         ELSE LET baseRate == getBorrowRate(L.poolStats.totalDeposits,
                                            L.poolStats.totalBorrows)
                  adjustedRate == getAdjustedInterestRate(user, baseRate)
                  interest == interestFor(account.borrowed, adjustedRate, timeElapsed)
              IN [L EXCEPT !.userAccounts[user].accruedInterest = @ + interest,
                           !.userAccounts[user].lastUpdateTime = now]

\* address(this).balance - reserveBalance; a negative value stands for the
\* checked subtraction reverting
availableLiquidity(L) == L.balance - L.reserveBalance

creditDeposit(L, user, value) ==
    [L EXCEPT !.userAccounts[user].deposited = @ + value,
              !.poolStats.totalDeposits = @ + value]

depositThenAccrue(L0, user, value) ==
    LET L == receive(L0, value) IN
    IF ~(value > 0) THEN Revert("Deposit amount must be greater than 0", L)
    ELSE Done(accrueInterest(creditDeposit(L, user, value), user))

deposit(L0, user, value) ==
    LET L == receive(L0, value) IN
    IF ~(value > 0) THEN Revert("Deposit amount must be greater than 0", L)
    ELSE Done(creditDeposit(accrueInterest(L, user), user, value))

maxBorrowOf(account) == (account.deposited * MAX_BORROW_RATIO) \div 100

debitBorrowNoTotal(L, user, amount) ==
    [L EXCEPT !.userAccounts[user].borrowed = @ + amount]

debitBorrow(L, user, amount) ==
    [L EXCEPT !.userAccounts[user].borrowed = @ + amount,
              !.poolStats.totalBorrows = @ + amount]

borrow(L0, user, amount, accepts) ==
    IF ~(amount > 0) THEN Revert("Borrow amount must be greater than 0", L0)
    ELSE
    LET L == accrueInterest(L0, user)
        maxBorrow == maxBorrowOf(L.userAccounts[user])
        currentBorrow == totalOwedOf(L.userAccounts[user])
    IN  IF ~(currentBorrow + amount <= maxBorrow)
        THEN Revert("Exceeds borrowing capacity", L)
        ELSE IF availableLiquidity(L) < 0 THEN Revert("Panic: arithmetic underflow", L)
        ELSE IF ~(amount <= availableLiquidity(L))
        THEN Revert("Insufficient liquidity", L)
        ELSE LET L2 == debitBorrow(L, user, amount) IN
             IF ~accepts THEN Revert("transfer failed", L2)
             ELSE Done(send(L2, amount))

reserveShareNoPercent(interestPaid) == interestPaid * RESERVE_FACTOR

reserveShare(interestPaid) == (interestPaid * RESERVE_FACTOR) \div 100

applyRepaymentPrincipalFirst(L, user, repayAmount) ==
    LET account == L.userAccounts[user]
        principalPayment == Min(repayAmount, account.borrowed)
        interestPaid == repayAmount - principalPayment
        L1 == [L EXCEPT !.userAccounts[user].accruedInterest = @ - interestPaid,
                        !.userAccounts[user].borrowed = @ - principalPayment,
                        !.poolStats.totalBorrows = @ - principalPayment]
    IN [L1 EXCEPT !.reserveBalance = @ + reserveShare(interestPaid)]

\* lines 100-118: split the payment, interest first, and allocate the reserve
applyRepayment(L, user, repayAmount) ==
    LET account == L.userAccounts[user]
        interestFirst == repayAmount <= account.accruedInterest
        interestPaid == IF interestFirst THEN repayAmount ELSE account.accruedInterest
        principalPayment == repayAmount - interestPaid
        L1 == IF interestFirst
              THEN [L EXCEPT !.userAccounts[user].accruedInterest = @ - repayAmount]
              ELSE [L EXCEPT !.userAccounts[user].accruedInterest = 0,
                             !.userAccounts[user].borrowed = @ - principalPayment,
                             !.poolStats.totalBorrows = @ - principalPayment]
    IN [L1 EXCEPT !.reserveBalance = @ + reserveShare(interestPaid)]

repay(L0, user, value, accepts) ==
    LET L == receive(L0, value) IN
    IF ~(value > 0) THEN Revert("Repayment amount must be greater than 0", L)
    ELSE
    LET L1 == accrueInterest(L, user)
        totalOwed == totalOwedOf(L1.userAccounts[user])
    IN  IF ~(totalOwed > 0) THEN Revert("No outstanding debt", L1)
        ELSE LET repayAmount == IF value > totalOwed THEN totalOwed ELSE value
                 L2 == applyRepayment(L1, user, repayAmount)
             IN IF value > repayAmount
                THEN IF ~accepts THEN Revert("transfer failed", L2)
                     ELSE Done(send(L2, value - repayAmount))
                ELSE Done(L2)

maxWithdrawOfIgnoringDebt(account) == account.deposited

\* lines 137-143; a negative value stands for the checked subtraction of
\* line 142 going below zero
maxWithdrawOf(account) ==
    IF totalOwedOf(account) > 0
    THEN account.deposited - ((totalOwedOf(account) * 100) \div MAX_BORROW_RATIO)
    ELSE account.deposited

debitDeposit(L, user, amount) ==
    [L EXCEPT !.userAccounts[user].deposited = @ - amount,
              !.poolStats.totalDeposits = @ - amount]

withdraw(L0, user, amount, accepts) ==
    IF ~(amount > 0) THEN Revert("Withdrawal amount must be greater than 0", L0)
    ELSE
    LET L == accrueInterest(L0, user)
        maxWithdraw == maxWithdrawOf(L.userAccounts[user])
    IN  IF maxWithdraw < 0 THEN Revert("Panic: arithmetic underflow", L)
        ELSE IF ~(amount <= maxWithdraw) THEN Revert("Exceeds withdrawable amount", L)
        ELSE IF availableLiquidity(L) < 0 THEN Revert("Panic: arithmetic underflow", L)
        ELSE IF ~(amount <= availableLiquidity(L))
        THEN Revert("Insufficient liquidity", L)
        ELSE LET L2 == debitDeposit(L, user, amount) IN
             IF ~accepts THEN Revert("transfer failed", L2)
             ELSE Done(send(L2, amount))

\* the interestPaid of the repay that takes the pool from L to post: what
\* the user owed in interest after the accrual step, less what is left
interestPaidIn(L, post, user) ==
    accrueInterest(L, user).userAccounts[user].accruedInterest
        - post.userAccounts[user].accruedInterest

\* one transaction on the pool: the state the EVM commits, and its receipt
PoolTx(op, user, res) ==
    LET post == Execute(PoolState, res) IN
    /\ Idle
    /\ userAccounts' = post.userAccounts
    /\ poolStats' = post.poolStats
    /\ reserveBalance' = post.reserveBalance
    /\ balance' = post.balance
    /\ lastTx' = [op |-> op, user |-> user, ok |-> res.ok]
    /\ events' = {}
    /\ totalInterestPaid' = IF op = "repay" /\ res.ok
                            THEN totalInterestPaid + interestPaidIn(PoolState, post, user)
                            ELSE totalInterestPaid
    /\ UNCHANGED <<now, rateVars, greenVars, boardVars, guardVars, lastCall, vaultVars>>

Deposit(user, value) ==
    /\ userAccounts[user].deposited + value <= MaxDeposit
    /\ PoolTx("deposit", user, deposit(PoolState, user, value))

Borrow(user, amount, accepts) ==
    PoolTx("borrow", user, borrow(PoolState, user, amount, accepts))

Repay(user, value, accepts) ==
    PoolTx("repay", user, repay(PoolState, user, value, accepts))

Withdraw(user, amount, accepts) ==
    PoolTx("withdraw", user, withdraw(PoolState, user, amount, accepts))

\* a later block
Tick(dt) ==
    /\ Idle
    /\ now + dt <= MaxTime
    /\ now' = now + dt
    /\ UNCHANGED <<poolVars, rateVars, greenVars, boardVars, lastTx, events, guardVars, lastCall, vaultVars,
                   totalInterestPaid>>

(***************************************************************************)
(* LeaderboardTracker.  topContributors is the Solidity array; index i of  *)
(* the source is position i + 1 of the sequence.                           *)
(***************************************************************************)
BoardState == [userScores |-> userScores, topContributors |-> topContributors,
               totalUsers |-> totalUsers, totalCarbonOffset |-> totalCarbonOffset,
               greenRewardManager |-> greenRewardManager, events |-> {}]

\* emit Name(user, x, y)
Event(name, user, x, y) == [name |-> name, user |-> user, x |-> x, y |-> y]

\* enum Badge
badgeOrdinal(badge) ==
    CASE badge = "NONE" -> 0
      [] badge = "ECO_STARTER" -> 1
      [] badge = "GREEN_CHAMPION" -> 2
      [] badge = "CLIMATE_HERO" -> 3
      [] badge = "EARTH_GUARDIAN" -> 4

calculateBadgeAbove(totalOffset) ==
    IF totalOffset > 100 THEN "EARTH_GUARDIAN"
    ELSE IF totalOffset > 50 THEN "CLIMATE_HERO"
    ELSE IF totalOffset > 10 THEN "GREEN_CHAMPION"
    ELSE IF totalOffset > 1 THEN "ECO_STARTER"
    ELSE "NONE"

calculateBadge(totalOffset) ==
    IF totalOffset >= 100 THEN "EARTH_GUARDIAN"
    ELSE IF totalOffset >= 50 THEN "CLIMATE_HERO"
    ELSE IF totalOffset >= 10 THEN "GREEN_CHAMPION"
    ELSE IF totalOffset >= 1 THEN "ECO_STARTER"
    ELSE "NONE"

\* lines 93-106: drop the user's entry, if its rank says it has one
removeFromTop(top, user, oldRank) ==
    IF oldRank > 0 /\ oldRank <= Len(top) /\ \E i \in 1..Len(top) : top[i] = user
    THEN LET i == CHOOSE k \in 1..Len(top) :
                      top[k] = user /\ \A m \in 1..(k - 1) : top[m] # user
         IN [j \in 1..(Len(top) - 1) |-> IF j < i THEN top[j] ELSE top[j + 1]]
    ELSE top

findPositionBeforeTies(scores, top, user) ==
    IF \E i \in 1..Len(top) :
           scores[user].totalCarbonOffset >= scores[top[i]].totalCarbonOffset
    THEN (CHOOSE i \in 1..Len(top) :
              /\ scores[user].totalCarbonOffset >= scores[top[i]].totalCarbonOffset
              /\ \A m \in 1..(i - 1) :
                     ~(scores[user].totalCarbonOffset >= scores[top[m]].totalCarbonOffset)) - 1
    ELSE Len(top)

findPositionAtEnd(scores, top, user) == Len(top)

\* lines 108-115: the source's newPosition (0-based): the first entry whose
\* score is strictly below the user's, else the end of the list
findPosition(scores, top, user) ==
    IF \E i \in 1..Len(top) :
           scores[user].totalCarbonOffset > scores[top[i]].totalCarbonOffset
    THEN (CHOOSE i \in 1..Len(top) :
              /\ scores[user].totalCarbonOffset > scores[top[i]].totalCarbonOffset
              /\ \A m \in 1..(i - 1) :
                     ~(scores[user].totalCarbonOffset > scores[top[m]].totalCarbonOffset)) - 1
    ELSE Len(top)

insertAtOverwriting(top, user, newPosition) ==
    IF Len(top) < LEADERBOARD_SIZE
    THEN [i \in 1..(Len(top) + 1) |-> IF i < newPosition + 1 THEN top[i]
                                      ELSE IF i = newPosition + 1 THEN user
                                      ELSE top[i - 1]]
    ELSE [top EXCEPT ![newPosition + 1] = user]

\* lines 119-128: grow the array unless it is full, shift the tail down by
\* one (the last entry of a full array is overwritten) and store the user
insertAt(top, user, newPosition) ==
    LET len == IF Len(top) < LEADERBOARD_SIZE THEN Len(top) + 1 ELSE Len(top) IN
    [i \in 1..len |-> IF i < newPosition + 1 THEN top[i]
                      ELSE IF i = newPosition + 1 THEN user
                      ELSE top[i - 1]]

\* lines 129-134: every listed user gets its index + 1; the loop visits the
\* array in order, so a user listed twice would keep its last index
assignRanks(scores, top) ==
    [u \in DOMAIN scores |->
        IF \E i \in 1..Len(top) : top[i] = u
        THEN [scores[u] EXCEPT !.rank =
                 CHOOSE i \in 1..Len(top) :
                     top[i] = u /\ \A m \in (i + 1)..Len(top) : top[m] # u]
        ELSE scores[u]]

\* lines 136-138: the one place RankChanged is emitted
rankChangedEvents(user, oldRank, newRank) ==
    IF oldRank # newRank THEN {Event("RankChanged", user, oldRank, newRank)} ELSE {}

updateLeaderboard(B, user) ==
    LET oldRank == B.userScores[user].rank
        removed == removeFromTop(B.topContributors, user, oldRank)
        newPosition == findPosition(B.userScores, removed, user)
    IN  IF newPosition < LEADERBOARD_SIZE
        THEN LET top == insertAt(removed, user, newPosition)
                 ranked == assignRanks(B.userScores, top)
             IN [B EXCEPT !.topContributors = top,
                          !.userScores = ranked,
                          !.events = @ \cup rankChangedEvents(user, oldRank,
                                                              ranked[user].rank)]
        ELSE [B EXCEPT !.topContributors = removed]

\* modifier onlyRewardManager
onlyRewardManager(B, sender) == sender = B.greenRewardManager

updateScore(B, sender, user, carbonTons) ==
    IF ~onlyRewardManager(B, sender) THEN Revert("Only GreenRewardManager", B)
    ELSE
    LET score == B.userScores[user]
        isNew == score.user = ZeroAddress
        total == score.totalCarbonOffset + carbonTons
        B1 == [B EXCEPT !.userScores[user] =
                            [score EXCEPT !.user = user,
                                          !.totalCarbonOffset = total,
                                          !.nftCount = @ + 1,
                                          !.lastUpdateTime = now,
                                          !.badge = calculateBadge(total)],
                        !.totalUsers = IF isNew THEN @ + 1 ELSE @,
                        !.totalCarbonOffset = @ + carbonTons,
                        !.events = IF calculateBadge(total) # score.badge
                                   THEN @ \cup {Event("BadgeAwarded", user,
                                                      badgeOrdinal(calculateBadge(total)), 0)}
                                   ELSE @]
        B2 == updateLeaderboard(B1, user)
    IN Done([B2 EXCEPT !.events = @ \cup {Event("ScoreUpdated", user, total,
                                                B2.userScores[user].rank)}])

(***************************************************************************)
(* GreenRewardManager.  A call changes the manager's own storage and, via  *)
(* updateScore, the tracker's: G holds both.                               *)
(***************************************************************************)
GreenState == [carbonNFTs |-> carbonNFTs, userProfiles |-> userProfiles,
               usedVerificationIds |-> usedVerificationIds,
               nextTokenId |-> nextTokenId, guardianOracle |-> guardianOracle,
               leaderboardTracker |-> leaderboardTracker, board |-> BoardState,
               events |-> {}]

rewardMultiplierForAbove(totalOffset) ==
    IF totalOffset > 100 THEN 250
    ELSE IF totalOffset > 50 THEN 200
    ELSE IF totalOffset > 10 THEN 150
    ELSE 100

rewardMultiplierFor(totalOffset) ==
    IF totalOffset >= 100 THEN 250
    ELSE IF totalOffset >= 50 THEN 200
    ELSE IF totalOffset >= 10 THEN 150
    ELSE 100

updateRewardMultiplier(G, user) ==
    [G EXCEPT !.userProfiles[user].rewardMultiplier =
                  rewardMultiplierFor(G.userProfiles[user].totalCarbonOffset)]

verificationIdUsedNever(G, verificationId) == FALSE

\* usedVerificationIds[verificationId]
verificationIdUsed(G, verificationId) == verificationId \in G.usedVerificationIds

recordCreditNoActive(G, recipient, carbonTons, verificationId, issuer, projectId) ==
    LET tokenId == G.nextTokenId IN
    [G EXCEPT !.nextTokenId = @ + 1,
              !.carbonNFTs = Append(@, [tokenId |-> tokenId,
                                        owner |-> recipient,
                                        carbonTonsOffset |-> carbonTons,
                                        guardianVerificationId |-> verificationId,
                                        mintTimestamp |-> now,
                                        isRetired |-> FALSE,
                                        issuer |-> issuer,
                                        projectId |-> projectId]),
              !.usedVerificationIds = @ \cup {verificationId},
              !.userProfiles[recipient].nftIds = Append(@, tokenId),
              !.userProfiles[recipient].totalCarbonOffset = @ + carbonTons]

\* lines 80-98: the credit, the used id and the recipient's profile
recordCredit(G, recipient, carbonTons, verificationId, issuer, projectId) ==
    LET tokenId == G.nextTokenId IN
    [G EXCEPT !.nextTokenId = @ + 1,
              !.carbonNFTs = Append(@, [tokenId |-> tokenId,
                                        owner |-> recipient,
                                        carbonTonsOffset |-> carbonTons,
                                        guardianVerificationId |-> verificationId,
                                        mintTimestamp |-> now,
                                        isRetired |-> FALSE,
                                        issuer |-> issuer,
                                        projectId |-> projectId]),
              !.usedVerificationIds = @ \cup {verificationId},
              !.userProfiles[recipient].nftIds = Append(@, tokenId),
              !.userProfiles[recipient].totalCarbonOffset = @ + carbonTons,
              !.userProfiles[recipient].activeNFTCount = @ + 1]

onlyGuardianOracleOrOwner(G, sender) == sender \in {G.guardianOracle, Deployer}

\* modifier onlyGuardianOracle
onlyGuardianOracle(G, sender) == sender = G.guardianOracle

mintCarbonNFT(G, sender, recipient, carbonTons, verificationId, issuer, projectId) ==
    IF ~onlyGuardianOracle(G, sender) THEN Revert("Only Guardian Oracle", G)
    ELSE IF ~(recipient # ZeroAddress) THEN Revert("Invalid recipient", G)
    ELSE IF ~(carbonTons >= MIN_CARBON_TONS) THEN Revert("Below minimum carbon tons", G)
    ELSE IF verificationIdUsed(G, verificationId)
    THEN Revert("Verification ID already used", G)
    ELSE
    LET G1 == recordCredit(G, recipient, carbonTons, verificationId, issuer, projectId)
        G2 == updateRewardMultiplier(G1, recipient)
    IN  IF G2.leaderboardTracker # ZeroAddress
        THEN LET res == updateScore(G2.board, ManagerAddr, recipient, carbonTons) IN
             IF res.ok
             THEN Done([G2 EXCEPT !.board = res.st,
                                  !.events = @ \cup {Event("NFTMinted", recipient,
                                                           G.nextTokenId, carbonTons)}])
             ELSE Revert(res.err, G2)
        ELSE Done([G2 EXCEPT !.events = @ \cup {Event("NFTMinted", recipient,
                                                      G.nextTokenId, carbonTons)}])

\* carbonNFTs[tokenId].owner: a token that was never minted reads as zeroes
ownerOfToken(G, tokenId) ==
    IF tokenId \in 1..Len(G.carbonNFTs) THEN G.carbonNFTs[tokenId].owner ELSE ZeroAddress

alreadyRetiredNever(G, tokenId) == FALSE

\* nft.isRetired
alreadyRetired(G, tokenId) == G.carbonNFTs[tokenId].isRetired

markRetiredReversingOffset(G, sender, tokenId) ==
    [G EXCEPT !.carbonNFTs[tokenId].isRetired = TRUE,
              !.userProfiles[sender].activeNFTCount = @ - 1,
              !.userProfiles[sender].totalCarbonOffset =
                  @ - G.carbonNFTs[tokenId].carbonTonsOffset]

\* lines 122-123; greenToken is never set by the deployment, and
\* _rewardGreenTokens only emits an event
markRetired(G, sender, tokenId) ==
    [G EXCEPT !.carbonNFTs[tokenId].isRetired = TRUE,
              !.userProfiles[sender].activeNFTCount = @ - 1]

retireNFT(G, sender, tokenId) ==
    IF ~(ownerOfToken(G, tokenId) = sender) THEN Revert("Not NFT owner", G)
    ELSE IF alreadyRetired(G, tokenId) THEN Revert("NFT already retired", G)
    ELSE IF G.userProfiles[sender].activeNFTCount = 0
    THEN Revert("Panic: arithmetic underflow", G)
    ELSE Done([markRetired(G, sender, tokenId) EXCEPT
                  !.events = @ \cup {Event("NFTRetired", sender, tokenId, 0)}])

\* onlyOwner; any address is accepted, the zero address included
setLeaderboardTracker(G, sender, tracker) ==
    IF sender # Deployer THEN Revert("OwnableUnauthorizedAccount", G)
    ELSE Done([G EXCEPT !.leaderboardTracker = tracker])

setGuardianOracle(G, sender, newOracle) ==
    IF sender # Deployer THEN Revert("OwnableUnauthorizedAccount", G)
    ELSE IF ~(newOracle # ZeroAddress) THEN Revert("Invalid oracle address", G)
    ELSE Done([G EXCEPT !.guardianOracle = newOracle,
                        !.events = @ \cup {Event("GuardianOracleUpdated", newOracle, 0, 0)}])

\* LeaderboardTracker.setGreenRewardManager
setGreenRewardManager(B, sender, manager) ==
    IF sender # Deployer THEN Revert("OwnableUnauthorizedAccount", B)
    ELSE IF ~(manager # ZeroAddress) THEN Revert("Invalid address", B)
    ELSE Done([B EXCEPT !.greenRewardManager = manager])

\* one transaction on the tracker alone
BoardTx(res) ==
    LET post == Execute(BoardState, res) IN
    /\ Idle
    /\ userScores' = post.userScores
    /\ topContributors' = post.topContributors
    /\ totalUsers' = post.totalUsers
    /\ totalCarbonOffset' = post.totalCarbonOffset
    /\ greenRewardManager' = post.greenRewardManager
    /\ events' = post.events
    /\ UNCHANGED <<now, poolVars, rateVars, greenVars, lastTx, guardVars, lastCall, vaultVars,
                   totalInterestPaid>>

\* one transaction on the manager
GreenTx(res) ==
    LET post == Execute(GreenState, res) IN
    /\ Idle
    /\ carbonNFTs' = post.carbonNFTs
    /\ userProfiles' = post.userProfiles
    /\ usedVerificationIds' = post.usedVerificationIds
    /\ nextTokenId' = post.nextTokenId
    /\ guardianOracle' = post.guardianOracle
    /\ leaderboardTracker' = post.leaderboardTracker
    /\ userScores' = post.board.userScores
    /\ topContributors' = post.board.topContributors
    /\ totalUsers' = post.board.totalUsers
    /\ totalCarbonOffset' = post.board.totalCarbonOffset
    /\ greenRewardManager' = post.board.greenRewardManager
    /\ events' = post.events \cup post.board.events
    /\ UNCHANGED <<now, poolVars, rateVars, lastTx, guardVars, lastCall, vaultVars,
                   totalInterestPaid>>

Issuers == {"issuer"}
ProjectIds == {"project"}

\* the oracle, or anyone else, submits a verification
MintCarbonNFT(sender, recipient, carbonTons, verificationId) ==
    /\ nextTokenId <= MaxTokens
    /\ \E issuer \in Issuers, projectId \in ProjectIds :
          GreenTx(mintCarbonNFT(GreenState, sender, recipient, carbonTons,
                                verificationId, issuer, projectId))

RetireNFT(sender, tokenId) ==
    GreenTx(retireNFT(GreenState, sender, tokenId))

SetLeaderboardTracker(sender, tracker) ==
    GreenTx(setLeaderboardTracker(GreenState, sender, tracker))

SetGuardianOracle(sender, newOracle) ==
    GreenTx(setGuardianOracle(GreenState, sender, newOracle))

SetGreenRewardManager(sender, manager) ==
    BoardTx(setGreenRewardManager(BoardState, sender, manager))

GetAdjustedInterestRate(user, baseRate) ==
    ViewCall("getAdjustedInterestRate", <<user, baseRate>>,
             Returns(getAdjustedInterestRate(user, baseRate)))

\* updateScore called on the tracker directly
UpdateScore(sender, user, carbonTons) ==
    /\ SumOver([u \in Users |-> userScores[u].nftCount], Users) < MaxUpdates
    /\ BoardTx(updateScore(BoardState, sender, user, carbonTons))

(***************************************************************************)
(* ClimateFundVault.  projects is the mapping projects[1 .. nextProjectId  *)
(* - 1]; a project that was never created reads as zeroes.                 *)
(***************************************************************************)
VaultState == [stakes |-> stakes, totalStaked |-> totalStaked,
               rewardRatePerYear |-> rewardRatePerYear, greenToken |-> greenToken,
               projects |-> projects, totalProjectsFunded |-> totalProjectsFunded,
               balance |-> vaultBalance]

NoStake == [amount |-> 0, startTime |-> 0, lastClaimTime |-> 0, rewardDebt |-> 0]
NoProject == [fundingGoal |-> 0, currentFunding |-> 0, beneficiary |-> ZeroAddress,
              isActive |-> FALSE]

\* payable(to).transfer(amount) reverts when the vault holds less than amount
canPay(V, amount) == amount <= V.balance

calculatePendingRewards(V, user) ==
    LET userStake == V.stakes[user] IN
    IF userStake.amount = 0 THEN 0
    ELSE LET since == IF userStake.lastClaimTime > 0 THEN userStake.lastClaimTime
                      ELSE userStake.startTime
             stakingDuration == now - since
         IN (userStake.amount * V.rewardRatePerYear * stakingDuration)
                \div (DAYS_PER_YEAR * 100)

\* _claimRewards
claimRewards(V, user) ==
    IF V.stakes[user].amount = 0
    THEN Done([V EXCEPT !.stakes[user].lastClaimTime = now])
    ELSE
    LET pendingRewards == calculatePendingRewards(V, user)
        V1 == [V EXCEPT !.stakes[user].rewardDebt = @ + pendingRewards,
                        !.stakes[user].lastClaimTime = now]
    IN  IF pendingRewards > 0
        THEN IF V.greenToken # ZeroAddress THEN Done(V1)
             ELSE IF ~canPay(V1, pendingRewards) THEN Revert("transfer failed", V1)
             ELSE Done(send(V1, pendingRewards))
        ELSE Done([V EXCEPT !.stakes[user].lastClaimTime = now])

stake(V0, user, value) ==
    LET V == receive(V0, value) IN
    IF ~(value > 0) THEN Revert("Must stake positive amount", V)
    ELSE LET claimed == claimRewards(V, user) IN
         IF ~claimed.ok THEN claimed
         ELSE Done([claimed.st EXCEPT !.stakes[user].amount = @ + value,
                                      !.stakes[user].startTime = now,
                                      !.totalStaked = @ + value])

\* ClimateFundVault.withdraw
vaultWithdraw(V, user, amount) ==
    IF ~(amount > 0 /\ amount <= V.stakes[user].amount) THEN Revert("Invalid amount", V)
    ELSE LET claimed == claimRewards(V, user) IN
         IF ~claimed.ok THEN claimed
         ELSE IF claimed.st.totalStaked < amount
         THEN Revert("Panic: arithmetic underflow", claimed.st)
         ELSE LET V2 == [claimed.st EXCEPT !.stakes[user].amount = @ - amount,
                                           !.totalStaked = @ - amount]
              IN IF ~canPay(V2, amount) THEN Revert("transfer failed", V2)
                 ELSE Done(send(V2, amount))

createProject(V, sender, fundingGoal, beneficiary) ==
    IF sender # Deployer THEN Revert("OwnableUnauthorizedAccount", V)
    ELSE IF ~(fundingGoal > 0) THEN Revert("Invalid funding goal", V)
    ELSE IF ~(beneficiary # ZeroAddress) THEN Revert("Invalid beneficiary", V)
    ELSE Done([V EXCEPT !.projects =
                   Append(@, [fundingGoal |-> fundingGoal, currentFunding |-> 0,
                              beneficiary |-> beneficiary, isActive |-> TRUE])])

projectOf(V, projectId) ==
    IF projectId \in 1..Len(V.projects) THEN V.projects[projectId] ELSE NoProject

fundProject(V, sender, projectId, amount) ==
    IF sender # Deployer THEN Revert("OwnableUnauthorizedAccount", V)
    ELSE IF ~projectOf(V, projectId).isActive THEN Revert("Project not active", V)
    ELSE IF ~(amount > 0) THEN Revert("Invalid amount", V)
    ELSE IF V.balance < V.totalStaked THEN Revert("Panic: arithmetic underflow", V)
    ELSE IF ~(amount <= V.balance - V.totalStaked)
    THEN Revert("Insufficient vault balance", V)
    ELSE
    LET V1 == send([V EXCEPT !.projects[projectId].currentFunding = @ + amount], amount)
        project == V1.projects[projectId]
    IN  IF project.currentFunding >= project.fundingGoal
        THEN Done([V1 EXCEPT !.projects[projectId].isActive = FALSE,
                             !.totalProjectsFunded = @ + 1])
        ELSE Done(V1)

\* one transaction on the vault
VaultTx(res) ==
    LET post == Execute(VaultState, res) IN
    /\ Idle
    /\ stakes' = post.stakes
    /\ totalStaked' = post.totalStaked
    /\ rewardRatePerYear' = post.rewardRatePerYear
    /\ greenToken' = post.greenToken
    /\ projects' = post.projects
    /\ totalProjectsFunded' = post.totalProjectsFunded
    /\ vaultBalance' = post.balance
    /\ events' = {}
    /\ UNCHANGED <<now, poolVars, rateVars, greenVars, boardVars, lastTx, guardVars,
                   lastCall, totalInterestPaid>>

Stake(user, value) ==
    /\ stakes[user].amount + value <= MaxStake
    /\ VaultTx(stake(VaultState, user, value))

VaultWithdraw(user, amount) ==
    VaultTx(vaultWithdraw(VaultState, user, amount))

ClaimRewards(user) ==
    VaultTx(claimRewards(VaultState, user))

CreateProject(sender, fundingGoal, beneficiary) ==
    /\ Len(projects) < MaxProjects
    /\ VaultTx(createProject(VaultState, sender, fundingGoal, beneficiary))

FundProject(sender, projectId, amount) ==
    VaultTx(fundProject(VaultState, sender, projectId, amount))

\* receive(): the vault takes whatever is sent to it
Donate(value) ==
    /\ vaultBalance + value <= MaxStake * NumUsers + MaxDonated
    /\ vaultBalance - totalStaked + value <= MaxDonated
    /\ VaultTx(Done(receive(VaultState, value)))

\* constructor() and the field initializers
InitVault ==
    /\ stakes = [u \in Users |-> NoStake]
    /\ totalStaked = 0
    /\ rewardRatePerYear = 8
    /\ greenToken = ZeroAddress
    /\ projects = <<>>
    /\ totalProjectsFunded = 0
    /\ vaultBalance = 0

(***************************************************************************)
(* The state after the deployment script has run.                          *)
(***************************************************************************)
NoAccount == [deposited |-> 0, borrowed |-> 0, lastUpdateTime |-> 0, accruedInterest |-> 0]
NoProfile == [nftIds |-> <<>>, totalCarbonOffset |-> 0, activeNFTCount |-> 0,
              lastRewardTimestamp |-> 0, rewardMultiplier |-> 0]
NoCall == [fn |-> "none", args |-> <<>>, ok |-> TRUE, value |-> 0]
NoScore == [user |-> ZeroAddress, totalCarbonOffset |-> 0, nftCount |-> 0, rank |-> 0,
            lastUpdateTime |-> 0, badge |-> "NONE"]

\* the pool as constructed, in the block of the deployment
\* the pool's storage as constructed
EmptyPool ==
    [userAccounts |-> [u \in Users |-> NoAccount],
     poolStats |-> [totalDeposits |-> 0, totalBorrows |-> 0, reserveFactor |-> 0,
                    lastUpdateTime |-> 0],
     reserveBalance |-> 0, balance |-> 0]

NoPending == [active |-> FALSE, op |-> "", user |-> ZeroAddress, amount |-> 0,
              pre |-> EmptyPool, nested |-> [op |-> "", ok |-> FALSE]]

InitPool ==
    /\ now = 0
    /\ status = "NOT_ENTERED"
    /\ pending = NoPending
    /\ totalInterestPaid = 0
    /\ userAccounts = [u \in Users |-> NoAccount]
    /\ poolStats = [totalDeposits |-> 0, totalBorrows |-> 0, reserveFactor |-> 0,
                    lastUpdateTime |-> 0]
    /\ reserveBalance = 0
    /\ balance = 0
    /\ lastTx = [op |-> "deploy", user |-> ZeroAddress, ok |-> TRUE]
    /\ lastCall = NoCall

InstallModel(R) ==
    /\ baseRatePerYear = R.baseRatePerYear
    /\ multiplierPerYear = R.multiplierPerYear
    /\ jumpMultiplierPerYear = R.jumpMultiplierPerYear
    /\ kink = R.kink

\* the ledger and the rate model as deployed
InitLedger == InitPool /\ InstallModel(constructModel(2, 10, 100, 80))

\* the manager and the tracker as deployed and linked to each other
Deployed ==
    [carbonNFTs |-> <<>>, userProfiles |-> [u \in Users |-> NoProfile],
     usedVerificationIds |-> {}, nextTokenId |-> 1, guardianOracle |-> Deployer,
     leaderboardTracker |-> TrackerAddr, events |-> {},
     board |-> [userScores |-> [u \in Users |-> NoScore], topContributors |-> <<>>,
                totalUsers |-> 0, totalCarbonOffset |-> 0,
                greenRewardManager |-> ManagerAddr, events |-> {}]]

InstallGreen(G) ==
    /\ carbonNFTs = G.carbonNFTs
    /\ userProfiles = G.userProfiles
    /\ usedVerificationIds = G.usedVerificationIds
    /\ nextTokenId = G.nextTokenId
    /\ guardianOracle = G.guardianOracle
    /\ leaderboardTracker = G.leaderboardTracker
    /\ userScores = G.board.userScores
    /\ topContributors = G.board.topContributors
    /\ totalUsers = G.board.totalUsers
    /\ totalCarbonOffset = G.board.totalCarbonOffset
    /\ greenRewardManager = G.board.greenRewardManager
    /\ events = {}

Init == InitLedger /\ InstallGreen(Deployed) /\ InitVault

\* the oracle has recorded n credits of one ton each for user 1, under the
\* verification ids vc-1 .. vc-n
RECURSIVE AfterMints(_)
AfterMints(n) ==
    IF n = 0 THEN Deployed
    ELSE CHOOSE post \in {mintCarbonNFT(G, Deployer, 1, 1, "vc-" \o ToString(n),
                                       "issuer", "project").st :
                             G \in {AfterMints(n - 1)}} : TRUE

\* a rate model constructed with any of the parameters a deployer can pass
InitConstructed ==
    /\ InitPool
    /\ \E base \in BaseRates, m \in Multipliers, j \in JumpMultipliers, k \in Kinks :
          InstallModel(constructModel(base, m, j, k))
    /\ InstallGreen(Deployed)
    /\ InitVault

InitDiscount ==
    InitLedger /\ InitVault /\ \E n \in 0..MaxCredits : InstallGreen(AfterMints(n))

(***************************************************************************)
(* SpecVault: users stake, claim and withdraw; the owner creates and funds *)
(* a project; the vault is sent funds; time passes.                        *)
(***************************************************************************)
Stakers == {1, 2}
StakeAmounts == {0, 2}
\* 25 years between two blocks
VaultTickDays == {9125}
\* the vault is observed for 50 years
MaxVaultTime == 18250

NextVault ==
    \/ \E u \in Stakers, v \in StakeAmounts : Stake(u, v)
    \/ \E u \in Stakers, a \in StakeAmounts : VaultWithdraw(u, a)
    \/ \E u \in Stakers : ClaimRewards(u)
    \/ \E s \in {Deployer, 1} : CreateProject(s, 2, 3)
    \/ \E s \in {Deployer, 1}, a \in StakeAmounts : FundProject(s, 1, a)
    \/ Donate(2)
    \/ \E dt \in VaultTickDays : now + dt <= MaxVaultTime /\ Tick(dt)

SpecVault == Init /\ [][NextVault]_vars

(***************************************************************************)
(* SpecLadder: the tracker is told of credits of 5, 50 and 120 tons.       *)
(***************************************************************************)
LadderTons == {5, 50, 120}

NextLadder ==
    \E u \in 1..3, t \in LadderTons : UpdateScore(ManagerAddr, u, t)

SpecLadder == Init /\ [][NextLadder]_vars

(***************************************************************************)
(* A pool call seen in two steps: up to its outbound transfer, where       *)
(* control passes to the recipient, and from the recipient's return on.    *)
(* In between, the recipient may call back into the pool.                  *)
(***************************************************************************)
PoolOps == {"deposit", "borrow", "repay", "withdraw"}

\* the body of the external function op; for the payable ones the amount
\* is msg.value
poolCall(op, L, user, amount, accepts) ==
    CASE op = "deposit" -> deposit(L, user, amount)
      [] op = "borrow" -> borrow(L, user, amount, accepts)
      [] op = "repay" -> repay(L, user, amount, accepts)
      [] op = "withdraw" -> withdraw(L, user, amount, accepts)

nonReentrantOff(st) == TRUE

\* modifier nonReentrant (ReentrancyGuard): passes unless a guarded call
\* is already executing
nonReentrant(st) == st # "ENTERED"

\* a call of the external function op: the modifier, then the body
enter(st, op, L, user, amount, accepts) ==
    IF ~nonReentrant(st) THEN Revert("ReentrancyGuardReentrantCall", L)
    ELSE poolCall(op, L, user, amount, accepts)

\* the call runs up to its transfer: the storage writes that precede the
\* transfer are made, the value leaves the pool, the guard is set
BeginTransfer(op, user, amount) ==
    /\ Idle
    /\ LET refused == enter(status, op, PoolState, user, amount, FALSE)
           mid == enter(status, op, PoolState, user, amount, TRUE).st
       IN  /\ ~refused.ok /\ refused.err = "transfer failed"
           /\ userAccounts' = mid.userAccounts
           /\ poolStats' = mid.poolStats
           /\ reserveBalance' = mid.reserveBalance
           /\ balance' = mid.balance
    /\ status' = "ENTERED"
    /\ pending' = [active |-> TRUE, op |-> op, user |-> user, amount |-> amount,
                   pre |-> PoolState, nested |-> NoPending.nested]
    /\ UNCHANGED <<now, rateVars, greenVars, boardVars, lastTx, events, lastCall, vaultVars,
                   totalInterestPaid>>

\* from inside the transfer, a call back into the pool
ReentrantCall(op, user, amount) ==
    /\ pending.active
    /\ op = "deposit" => userAccounts[user].deposited + amount <= MaxDeposit
    /\ LET res == enter(status, op, PoolState, user, amount, TRUE)
           post == Execute(PoolState, res)
       IN  /\ userAccounts' = post.userAccounts
           /\ poolStats' = post.poolStats
           /\ reserveBalance' = post.reserveBalance
           /\ balance' = post.balance
           /\ pending' = [pending EXCEPT !.nested = [op |-> op, ok |-> res.ok]]
    /\ UNCHANGED <<now, rateVars, greenVars, boardVars, lastTx, events, status, lastCall, vaultVars,
                   totalInterestPaid>>

\* the recipient returns: the call completes and commits, or the transfer
\* failed and the whole call is reverted; either way the guard is reset
EndTransfer(accepts) ==
    /\ pending.active
    /\ LET post == IF accepts THEN PoolState ELSE pending.pre
       IN  /\ userAccounts' = post.userAccounts
           /\ poolStats' = post.poolStats
           /\ reserveBalance' = post.reserveBalance
           /\ balance' = post.balance
    /\ status' = "NOT_ENTERED"
    /\ pending' = NoPending
    /\ lastTx' = [op |-> pending.op, user |-> pending.user, ok |-> accepts]
    /\ events' = {}
    /\ totalInterestPaid' =
           IF pending.op = "repay" /\ accepts
           THEN totalInterestPaid + interestPaidIn(pending.pre, PoolState, pending.user)
           ELSE totalInterestPaid
    /\ UNCHANGED <<now, rateVars, greenVars, boardVars, lastCall, vaultVars>>

NextReentry ==
    \/ \E a \in Amounts : Deposit(1, a)
    \/ \E op \in PoolOps, a \in Amounts \cup RepayAmounts : BeginTransfer(op, 1, a)
    \/ \E op \in PoolOps, u \in Borrowers, a \in {2, 10} : ReentrantCall(op, u, a)
    \/ \E ok \in BOOLEAN : EndTransfer(ok)
    \/ \E dt \in TickDays : Tick(dt)

SpecReentry == Init /\ [][NextReentry]_vars

(***************************************************************************)
(* Spec: the lending pool under deposits, borrows, repayments, withdrawals *)
(* and the passage of time.                                                *)
(***************************************************************************)
Next ==
    \/ \E u \in Borrowers, a \in Amounts : Deposit(u, a)
    \/ \E u \in Borrowers, a \in Amounts, ok \in BOOLEAN : Borrow(u, a, ok)
    \/ \E u \in Borrowers, a \in RepayAmounts, ok \in BOOLEAN : Repay(u, a, ok)
    \/ \E u \in Borrowers, a \in Amounts, ok \in BOOLEAN : Withdraw(u, a, ok)
    \/ \E dt \in TickDays : Tick(dt)

Spec == Init /\ [][Next]_vars

(***************************************************************************)
(* SpecGreen: credits are minted and retired; the manager notifies the     *)
(* tracker.  SpecBoard: the tracker alone, under updateScore calls by its  *)
(* authorized caller and by others.                                        *)
(***************************************************************************)
NextGreen ==
    \/ \E s \in {Deployer, 1}, r \in Users \cup {ZeroAddress}, t \in Tons,
          v \in VerificationIds : MintCarbonNFT(s, r, t, v)
    \/ \E s \in Users, id \in 1..(MaxTokens + 1) : RetireNFT(s, id)
    \/ \E dt \in TickDays : Tick(dt)

SpecGreen == Init /\ [][NextGreen]_vars

NextBoard ==
    \E s \in {ManagerAddr, 1}, u \in Users, t \in BoardTons : UpdateScore(s, u, t)

SpecBoard == Init /\ [][NextBoard]_vars

(***************************************************************************)
(* SpecRate: the rate model is queried, and its owner (or someone else)    *)
(* replaces its parameters.                                                *)
(***************************************************************************)
NextRate ==
    \/ \E d \in PoolDeposits, b \in PoolBorrows : GetBorrowRate(d, b)
    \/ \E d \in PoolDeposits, b \in PoolBorrows, rf \in ReserveFactors :
          GetSupplyRate(d, b, rf)
    \/ \E s \in {Deployer, 1}, base \in BaseRates, m \in Multipliers,
          j \in JumpMultipliers, k \in Kinks : UpdateModel(s, base, m, j, k)

SpecRate == Init /\ [][NextRate]_vars

(***************************************************************************)
(* SpecDiscount: a user holding up to MaxCredits credits retires them one  *)
(* by one while the discounted rate is asked for.                          *)
(***************************************************************************)
NextDiscount ==
    \/ \E u \in Borrowers, base \in DiscountBaseRates : GetAdjustedInterestRate(u, base)
    \/ \E s \in Borrowers, id \in 1..MaxCredits : RetireNFT(s, id)

SpecDiscount == InitDiscount /\ [][NextDiscount]_vars

(***************************************************************************)
(* SpecAdmin: the owner (or someone else) re-points the oracle, the        *)
(* tracker and the manager while credits are submitted and updateScore is  *)
(* called by externally owned accounts.                                    *)
(***************************************************************************)
NextAdmin ==
    \/ \E s \in {Deployer, 1}, r \in Borrowers, t \in AdminTons, v \in VerificationIds :
          MintCarbonNFT(s, r, t, v)
    \/ \E s \in {Deployer, 1}, u \in Borrowers, t \in AdminTons : UpdateScore(s, u, t)
    \/ \E s \in {Deployer, 1}, o \in {ZeroAddress, 1} : SetGuardianOracle(s, o)
    \/ \E s \in {Deployer, 1}, t \in {ZeroAddress, TrackerAddr} : SetLeaderboardTracker(s, t)
    \/ \E s \in {Deployer, 1}, m \in {ZeroAddress, ManagerAddr, Deployer} :
          SetGreenRewardManager(s, m)

SpecAdmin == Init /\ [][NextAdmin]_vars

(***************************************************************************)
(* SpecAccrual: one borrower uses the pool while the oracle records        *)
(* credits for them, they retire credits, and the blocks advance.          *)
(***************************************************************************)
NextAccrual ==
    \/ \E a \in Amounts : Deposit(1, a)
    \/ \E a \in Amounts : Borrow(1, a, TRUE)
    \/ \E a \in RepayAmounts : Repay(1, a, TRUE)
    \/ \E a \in Amounts : Withdraw(1, a, TRUE)
    \/ \E dt \in TickDays : Tick(dt)
    \/ \E v \in VerificationIds : MintCarbonNFT(Deployer, 1, 1, v)
    \/ \E id \in 1..MaxTokens : RetireNFT(1, id)

SpecAccrual == Init /\ [][NextAccrual]_vars

(***************************************************************************)
(* SpecSolo: one user deposits, borrows, repays and withdraws as the       *)
(* blocks advance.                                                         *)
(***************************************************************************)
NextSolo ==
    \/ \E a \in Amounts : Deposit(1, a)
    \/ \E a \in Amounts : Borrow(1, a, TRUE)
    \/ \E a \in RepayAmounts : Repay(1, a, TRUE)
    \/ \E a \in Amounts : Withdraw(1, a, TRUE)
    \/ \E dt \in TickDays : Tick(dt)

SpecSolo == Init /\ [][NextSolo]_vars

(***************************************************************************)
(* SpecSplit: a borrower's debt is left alone for a few years at a time.   *)
(***************************************************************************)
SplitDays == {2000, 3000}
\* the debt is observed for this many days
MaxSplitTime == 10000

NextSplit ==
    \/ \E a \in Amounts : Deposit(1, a)
    \/ \E a \in Amounts : Borrow(1, a, TRUE)
    \/ \E a \in RepayAmounts : Repay(1, a, TRUE)
    \/ \E dt \in SplitDays : now + dt <= MaxSplitTime /\ Tick(dt)

SpecSplit == Init /\ [][NextSplit]_vars

(***************************************************************************)
(* SpecConstruct: as SpecRate, for a rate model constructed with any        *)
(* parameters.  SpecFrame: the rate model is queried and updated while the *)
(* pool, the registry and the tracker are used, all in one block.          *)
(***************************************************************************)
SpecConstruct == InitConstructed /\ [][NextRate]_vars

NextFrame ==
    \/ \E s \in {Deployer, 1}, j \in JumpMultipliers, k \in Kinks :
          UpdateModel(s, 0, 10, j, k)
    \/ \E b \in {5, 9} : GetBorrowRate(10, b)
    \/ GetSupplyRate(10, 9, 10)
    \/ Deposit(1, 2)
    \/ Borrow(1, 2, TRUE)
    \/ Repay(1, 10, TRUE)
    \/ Withdraw(1, 2, TRUE)
    \/ MintCarbonNFT(Deployer, 1, 1, "vc-1")
    \/ RetireNFT(1, 1)

SpecFrame == Init /\ [][NextFrame]_vars

(***************************************************************************)
(* Properties of the lending pool, checked under Spec.                     *)
(***************************************************************************)
\* C1: after any sequence of deposit, borrow, repay and withdraw calls,
\* accepted or rejected, totalDeposits is the sum of the users' deposited and
\* totalBorrows is the sum of the users' borrowed.
C1_Conservation ==
    /\ poolStats.totalDeposits = SumOver([u \in Users |-> userAccounts[u].deposited], Users)
    /\ poolStats.totalBorrows = SumOver([u \in Users |-> userAccounts[u].borrowed], Users)

\* a partial repayment of principal has just been committed while another
\* user holds a deposit
C1_Witness ==
    /\ lastTx.op = "repay" /\ lastTx.ok
    /\ userAccounts[lastTx.user].borrowed = 1
    /\ \E v \in Borrowers \ {lastTx.user} : userAccounts[v].deposited > 0

\* C2: in every reachable state every user's borrowed + accruedInterest is
\* at most deposited * MAX_BORROW_RATIO / 100.
C2_BorrowCeiling ==
    \A u \in Users : totalOwedOf(userAccounts[u]) <= maxBorrowOf(userAccounts[u])

\* C3: after a successful withdraw by a user who still owes something, the
\* remaining deposit covers the debt at the collateral ratio:
\* deposited * 80 >= (borrowed + accruedInterest) * 100.
C3_WithdrawKeepsCollateral ==
    (lastTx.op = "withdraw" /\ lastTx.ok /\ totalOwedOf(userAccounts[lastTx.user]) > 0)
        => userAccounts[lastTx.user].deposited * MAX_BORROW_RATIO
               >= totalOwedOf(userAccounts[lastTx.user]) * 100

\* C4: reserveBalance never exceeds the pool's balance (so the subtraction in
\* _availableLiquidity cannot go below zero), and a borrow or withdraw is
\* accepted only for an amount within balance - reserveBalance.
C4_ReserveBacked ==
    /\ reserveBalance <= balance
    /\ availableLiquidity(PoolState) >= 0
    /\ \A u \in Borrowers, a \in Amounts, ok \in BOOLEAN :
          /\ borrow(PoolState, u, a, ok).ok => a <= balance - reserveBalance
          /\ withdraw(PoolState, u, a, ok).ok => a <= balance - reserveBalance

\* funds have been paid out while part of the balance was reserved
C4_Witness ==
    /\ reserveBalance > 0
    /\ lastTx.op \in {"borrow", "withdraw"} /\ lastTx.ok

CreditsWithId(v) ==
    {i \in 1..Len(carbonNFTs) : carbonNFTs[i].guardianVerificationId = v}

TonsCreditedTo(u) ==
    SumOver([i \in 1..Len(carbonNFTs) |->
                IF carbonNFTs[i].owner = u THEN carbonNFTs[i].carbonTonsOffset ELSE 0],
            1..Len(carbonNFTs))

\* C6: once a verification id has been recorded, every further mintCarbonNFT
\* with that id, for any recipient and any tons, is rejected and changes
\* nothing; so each id belongs to exactly one credit and each user's total is
\* the sum of the credits recorded for them, each counted once.
C6_CredentialUsedOnce ==
    /\ \A s \in {Deployer, 1}, r \in Users \cup {ZeroAddress}, t \in Tons,
          v \in usedVerificationIds, i \in Issuers, p \in ProjectIds :
          LET res == mintCarbonNFT(GreenState, s, r, t, v, i, p) IN
          ~res.ok /\ Execute(GreenState, res) = GreenState
    /\ \A v \in VerificationIds :
          Cardinality(CreditsWithId(v)) = IF v \in usedVerificationIds THEN 1 ELSE 0
    /\ \A u \in Users : userProfiles[u].totalCarbonOffset = TonsCreditedTo(u)

\* one credit is recorded, the oracle re-submitting its id for another
\* recipient is rejected, and the same submission under a fresh id is accepted
C6_Witness ==
    /\ Len(carbonNFTs) = 1
    /\ \E r \in Users \ {carbonNFTs[1].owner}, t \in Tons, i \in Issuers, p \in ProjectIds :
          /\ ~mintCarbonNFT(GreenState, guardianOracle, r, t,
                            carbonNFTs[1].guardianVerificationId, i, p).ok
          /\ \E v \in VerificationIds \ usedVerificationIds :
                 mintCarbonNFT(GreenState, guardianOracle, r, t, v, i, p).ok

(***************************************************************************)
(* Properties of the leaderboard, checked under SpecBoard.                 *)
(***************************************************************************)
Listed(top) == {top[i] : i \in 1..Len(top)}
PositionIn(top, u) == CHOOSE i \in 1..Len(top) : top[i] = u
ScoreOf(u) == userScores[u].totalCarbonOffset

\* C7: for every adjacent pair of topContributors the earlier entry's score
\* is at least the later entry's.
C7_Ordered ==
    \A i \in 1..(Len(topContributors) - 1) :
        ScoreOf(topContributors[i]) >= ScoreOf(topContributors[i + 1])

\* a full list with strictly decreasing scores whose leader was updated
\* more than once (it was removed and inserted again)
C7_Witness ==
    /\ Len(topContributors) = LEADERBOARD_SIZE
    /\ userScores[topContributors[1]].nftCount >= 2
    /\ \A i \in 1..(Len(topContributors) - 1) :
           ScoreOf(topContributors[i]) > ScoreOf(topContributors[i + 1])

NoOutsiderAboveLast ==
    Len(topContributors) = LEADERBOARD_SIZE =>
        \A u \in Users \ Listed(topContributors) :
            ScoreOf(u) <= ScoreOf(topContributors[Len(topContributors)])

\* C8: once the list is full no user outside it has a score strictly above
\* the last entry's, and a step removes a user from the list only when the
\* list was full, and then exactly its last (lowest) entry.
C8_FullListKeepsTheBest ==
    /\ []NoOutsiderAboveLast
    /\ [][Listed(topContributors) \ Listed(topContributors') # {} =>
              /\ Len(topContributors) = LEADERBOARD_SIZE
              /\ Listed(topContributors) \ Listed(topContributors')
                     = {topContributors[Len(topContributors)]}]_vars

\* the list is full and a user who was listed has been pushed out of it
C8_Witness ==
    /\ Len(topContributors) = LEADERBOARD_SIZE
    /\ \E u \in Users \ Listed(topContributors) :
           userScores[u].rank > 0 /\ ScoreOf(u) > 0

\* C9: at most LEADERBOARD_SIZE users have a non-zero rank, the non-zero
\* ranks are exactly 1..k without gaps or duplicates, and a user who was
\* never credited has rank 0.
C9_DenseRanks ==
    LET ranked == {u \in Users : userScores[u].rank > 0} IN
    /\ Cardinality(ranked) <= LEADERBOARD_SIZE
    /\ \A u, v \in ranked : u # v => userScores[u].rank # userScores[v].rank
    /\ {userScores[u].rank : u \in ranked} = 1..Cardinality(ranked)
    /\ \A u \in Users : userScores[u].nftCount = 0 => userScores[u].rank = 0

\* C10: ties are stable.  The user whose score a step updates is placed
\* behind every listed user whose score equals its new score, and the other
\* listed users keep their order.
C10_TiesStable ==
    [][\A u \in Users :
          userScores'[u].nftCount # userScores[u].nftCount =>
              /\ u \in Listed(topContributors') =>
                     \A v \in Listed(topContributors') \ {u} :
                         ScoreOf(v)' = ScoreOf(u)' =>
                             PositionIn(topContributors', v) < PositionIn(topContributors', u)
              /\ \A v, w \in (Listed(topContributors) \cap Listed(topContributors')) \ {u} :
                     PositionIn(topContributors, v) < PositionIn(topContributors, w) =>
                         PositionIn(topContributors', v) < PositionIn(topContributors', w)
      ]_vars

\* two listed users are tied; the first got its score in one update, the
\* second reached the same score by a later, second update
C10_Witness ==
    /\ Len(topContributors) >= 2
    /\ ScoreOf(topContributors[1]) = ScoreOf(topContributors[2])
    /\ userScores[topContributors[1]].nftCount = 1
    /\ userScores[topContributors[2]].nftCount = 2


(***************************************************************************)
(* Properties of the rate model, checked under SpecRate.                   *)
(***************************************************************************)
\* the totalBorrows the curve is examined at: every utilization from 0 to
\* 120 in steps of 10 against deposits of 10, and the callers' own values
BorrowPoints == PoolBorrows \cup 0..12

\* C11: with kink <= 100 and totalDeposits > 0, getBorrowRate is
\* non-decreasing in totalBorrows, and more generally in the utilization
\* floor(totalBorrows * 100 / totalDeposits), across the kink and whatever
\* the two slopes are.
C11_RateMonotonic ==
    kink <= 100 =>
        /\ \A d \in PoolDeposits \ {0}, b1, b2 \in BorrowPoints :
               b1 <= b2 => getBorrowRate(d, b1) <= getBorrowRate(d, b2)
        /\ \A d1, d2 \in PoolDeposits \ {0}, b1, b2 \in BorrowPoints :
               getUtilizationRate(d1, b1) <= getUtilizationRate(d2, b2)
                   => getBorrowRate(d1, b1) <= getBorrowRate(d2, b2)

\* the model was given a slope above the kink that is smaller than the one
\* below it, and the rate was then asked for beyond the kink
C11_Witness ==
    /\ multiplierPerYear > jumpMultiplierPerYear
    /\ lastCall.fn = "getBorrowRate" /\ lastCall.args[1] > 0
    /\ getUtilizationRate(lastCall.args[1], lastCall.args[2]) > kink
    /\ lastCall.value = getBorrowRate(lastCall.args[1], lastCall.args[2])
    /\ lastCall.value > baseRatePerYear

BorrowRateFormula(d, b) ==
    LET u == IF d = 0 THEN 0 ELSE (b * 100) \div d IN
    IF d = 0 \/ u = 0 THEN baseRatePerYear
    ELSE IF u <= kink THEN baseRatePerYear + (u * multiplierPerYear) \div 100
    ELSE baseRatePerYear + (kink * multiplierPerYear) \div 100
             + ((u - kink) * jumpMultiplierPerYear) \div 100

\* C12: every getBorrowRate call returns baseRate for no deposits or zero
\* utilization, baseRate + floor(u*multiplier/100) up to the kink and
\* baseRate + floor(kink*multiplier/100) + floor((u-kink)*jumpMultiplier/100)
\* beyond it; at u = kink the two branch formulas agree; and with the
\* deployed parameters (2, 10, 100, 80) the rate is 10 for 1000/800 and 20
\* for 1000/900.
C12_RateFormula ==
    /\ [][(lastCall' # lastCall /\ lastCall'.fn = "getBorrowRate") =>
              lastCall'.value = BorrowRateFormula(lastCall'.args[1], lastCall'.args[2])]_vars
    /\ [](\A d \in PoolDeposits \ {0}, b \in BorrowPoints :
              getUtilizationRate(d, b) = kink =>
                  /\ getBorrowRate(d, b)
                         = baseRatePerYear + (kink * multiplierPerYear) \div 100
                  /\ getBorrowRate(d, b)
                         = baseRatePerYear + (kink * multiplierPerYear) \div 100
                               + ((getUtilizationRate(d, b) - kink) * jumpMultiplierPerYear) \div 100)
    /\ []((<<baseRatePerYear, multiplierPerYear, jumpMultiplierPerYear, kink>>
               = <<2, 10, 100, 80>>) =>
              getBorrowRate(1000, 800) = 10 /\ getBorrowRate(1000, 900) = 20)

\* under the deployed parameters the rate for 1000 / 900 was asked for and
\* came back as 20
C12_Witness ==
    /\ <<baseRatePerYear, multiplierPerYear, jumpMultiplierPerYear, kink>> = <<2, 10, 100, 80>>
    /\ lastCall = [fn |-> "getBorrowRate", args |-> <<1000, 900>>, ok |-> TRUE, value |-> 20]

\* C13: a getSupplyRate call that returns gives
\* floor(floor(borrowRate * (100 - rf) / 100) * u / 100), gives 0 when there
\* are no deposits, and for rf <= 100 and u <= 100 gives at most the borrow
\* rate.
C13_SupplyRate ==
    [][(lastCall' # lastCall /\ lastCall'.fn = "getSupplyRate" /\ lastCall'.ok) =>
          LET d == lastCall'.args[1]
              b == lastCall'.args[2]
              rf == lastCall'.args[3]
              u == getUtilizationRate(d, b)
          IN  /\ d = 0 => lastCall'.value = 0
              /\ d # 0 => lastCall'.value
                              = (((getBorrowRate(d, b) * (100 - rf)) \div 100) * u) \div 100
              /\ (rf <= 100 /\ u <= 100) => lastCall'.value <= getBorrowRate(d, b)
      ]_vars

\* the supply rate beyond the kink, with a tenth of the interest reserved:
\* borrow rate 20, 18 of it to the pool, 90% utilized
C13_Witness ==
    /\ <<baseRatePerYear, multiplierPerYear, jumpMultiplierPerYear, kink>> = <<2, 10, 100, 80>>
    /\ lastCall = [fn |-> "getSupplyRate", args |-> <<1000, 900, 10>>, ok |-> TRUE, value |-> 16]


(***************************************************************************)
(* Properties of the rate discount, checked under SpecDiscount.            *)
(***************************************************************************)
\* the percentage getAdjustedInterestRate takes off baseRate for this user
ReductionPercentOf(user) ==
    IF 10 * userProfiles[user].activeNFTCount <= 50
    THEN 10 * userProfiles[user].activeNFTCount
    ELSE 50

\* C14: getAdjustedInterestRate takes min(activeNFTCount * 10, 50) percent
\* off the base rate: nothing for a user without profile or active credits,
\* never more than 50 percent, never a result above the base rate, no less
\* off for more active credits, and 10 becomes 5 with 6 active credits.
C14_Discount ==
    /\ [][(lastCall' # lastCall /\ lastCall'.fn = "getAdjustedInterestRate") =>
              LET user == lastCall'.args[1]
                  base == lastCall'.args[2]
                  n == userProfiles[user].activeNFTCount
              IN  /\ lastCall'.value = base - (base * ReductionPercentOf(user)) \div 100
                  /\ lastCall'.value <= base
                  /\ lastCall'.value * 2 >= base
                  /\ n = 0 => lastCall'.value = base
                  /\ (n = 6 /\ base = 10) => lastCall'.value = 5]_vars
    /\ [][\A user \in Borrowers, base \in DiscountBaseRates :
              userProfiles'[user].activeNFTCount <= userProfiles[user].activeNFTCount
                  => getAdjustedInterestRate(user, base)' >= getAdjustedInterestRate(user, base)]_vars

\* the holder of 6 active credits was quoted 5 for a base rate of 10
C14_Witness ==
    /\ userProfiles[1].activeNFTCount = 6
    /\ lastCall = [fn |-> "getAdjustedInterestRate", args |-> <<1, 10>>,
                   ok |-> TRUE, value |-> 5]


(***************************************************************************)
(* Properties of retirement and of the profile counters, checked under     *)
(* SpecGreen.                                                              *)
(***************************************************************************)
\* the credit is marked retired by this step
Retiring(id) ==
    /\ id \in 1..Len(carbonNFTs) /\ ~carbonNFTs[id].isRetired
    /\ id \in 1..Len(carbonNFTs') /\ carbonNFTs'[id].isRetired

ActiveCreditsOf(u) ==
    {id \in 1..Len(carbonNFTs) : carbonNFTs[id].owner = u /\ ~carbonNFTs[id].isRetired}

\* C15: a successful retireNFT changes the credit's isRetired flag and the
\* owner's activeNFTCount (minus 1) and nothing else: not the owner's
\* totalCarbonOffset, rewardMultiplier or nftIds, no other profile, nothing
\* of the leaderboard; and no operation ever lowers a totalCarbonOffset.
C15_RetireFrame ==
    /\ [][\A id \in 1..Len(carbonNFTs) :
              Retiring(id) =>
                  /\ carbonNFTs' = [carbonNFTs EXCEPT ![id].isRetired = TRUE]
                  /\ userProfiles' =
                         [userProfiles EXCEPT ![carbonNFTs[id].owner].activeNFTCount = @ - 1]
                  /\ UNCHANGED <<usedVerificationIds, nextTokenId, guardianOracle,
                                 leaderboardTracker, boardVars>>]_vars
    /\ [][\A u \in Users :
              userProfiles'[u].totalCarbonOffset >= userProfiles[u].totalCarbonOffset]_vars

\* a user credited 10 tons in two credits, ranked first with multiplier 150,
\* has retired one of the two
C15_Witness ==
    \E id \in 1..Len(carbonNFTs) :
        LET o == carbonNFTs[id].owner IN
        /\ carbonNFTs[id].isRetired
        /\ userProfiles[o].totalCarbonOffset = 10
        /\ userProfiles[o].rewardMultiplier = 150
        /\ userProfiles[o].activeNFTCount = 1
        /\ userScores[o].rank = 1

\* C16: retireNFT succeeds exactly for the recorded owner of an existing
\* credit that is not retired; every other call is rejected and changes
\* nothing; a retired credit stays retired, and activeNFTCount drops only
\* together with a credit of that user becoming retired.
C16_RetireGuard ==
    /\ [](\A s \in Users \cup {Deployer}, id \in 1..(MaxTokens + 1) :
              LET res == retireNFT(GreenState, s, id) IN
              /\ res.ok <=> (/\ id \in 1..Len(carbonNFTs)
                             /\ carbonNFTs[id].owner = s
                             /\ ~carbonNFTs[id].isRetired)
              /\ ~res.ok => Execute(GreenState, res) = GreenState)
    /\ [][/\ \A id \in 1..Len(carbonNFTs) :
                 carbonNFTs[id].isRetired => carbonNFTs'[id].isRetired
          /\ \A u \in Users :
                 userProfiles[u].activeNFTCount - userProfiles'[u].activeNFTCount
                     <= Cardinality({id \in 1..Len(carbonNFTs) :
                                        carbonNFTs[id].owner = u /\ Retiring(id)})]_vars

\* a user holding two credits has retired one; retiring it again is refused
\* although the counter could still be decremented
C16_Witness ==
    \E id \in 1..Len(carbonNFTs) :
        /\ carbonNFTs[id].isRetired
        /\ userProfiles[carbonNFTs[id].owner].activeNFTCount = 1
        /\ ~retireNFT(GreenState, carbonNFTs[id].owner, id).ok

\* C17: activeNFTCount is the number of the user's credits that are not
\* retired (at most nftIds.length, so its decrement cannot underflow); it
\* drops only by 1, only in a successful retireNFT called by that user, and
\* not when time passes or when somebody else calls.
C17_ActiveCount ==
    /\ [](\A u \in Users :
              /\ userProfiles[u].activeNFTCount = Cardinality(ActiveCreditsOf(u))
              /\ userProfiles[u].activeNFTCount <= Len(userProfiles[u].nftIds))
    /\ [](\A s \in Users \cup {Deployer}, id \in 1..(MaxTokens + 1), u \in Users :
              LET res == retireNFT(GreenState, s, id)
                  post == Execute(GreenState, res)
              IN  /\ res.err # "Panic: arithmetic underflow"
                  /\ post.userProfiles[u].activeNFTCount < userProfiles[u].activeNFTCount
                         => /\ s = u /\ res.ok
                            /\ post.userProfiles[u].activeNFTCount
                                   = userProfiles[u].activeNFTCount - 1)
    /\ [](\A s \in {Deployer, 1}, r \in Users \cup {ZeroAddress}, t \in Tons,
             v \in VerificationIds, i \in Issuers, p \in ProjectIds, u \in Users :
              Execute(GreenState, mintCarbonNFT(GreenState, s, r, t, v, i, p))
                      .userProfiles[u].activeNFTCount >= userProfiles[u].activeNFTCount)
    /\ [][\A u \in Users :
              userProfiles'[u].activeNFTCount < userProfiles[u].activeNFTCount =>
                  /\ userProfiles'[u].activeNFTCount = userProfiles[u].activeNFTCount - 1
                  /\ now' = now
                  /\ \E id \in 1..Len(carbonNFTs) :
                         carbonNFTs[id].owner = u /\ Retiring(id)]_vars

\* two users were credited, one of them retired the credit, and time has
\* passed since
C17_Witness ==
    \E u, v \in Users :
        /\ u # v /\ now > 0
        /\ Len(userProfiles[u].nftIds) = 1 /\ userProfiles[u].activeNFTCount = 0
        /\ Len(userProfiles[v].nftIds) = 1 /\ userProfiles[v].activeNFTCount = 1

\* C18: a credited user's rewardMultiplier is 100 below 10 tons, 150 for
\* 10-49, 200 for 50-99 and 250 from 100 tons of totalCarbonOffset, and no
\* mint or retirement ever lowers a rewardMultiplier.
C18_Multiplier ==
    /\ [](\A u \in Users :
              Len(userProfiles[u].nftIds) > 0 =>
                  userProfiles[u].rewardMultiplier =
                      (IF userProfiles[u].totalCarbonOffset < 10 THEN 100
                       ELSE IF userProfiles[u].totalCarbonOffset < 50 THEN 150
                       ELSE IF userProfiles[u].totalCarbonOffset < 100 THEN 200
                       ELSE 250))
    /\ [][\A u \in Users :
              userProfiles'[u].rewardMultiplier >= userProfiles[u].rewardMultiplier]_vars

\* a user reached exactly 100 tons (multiplier 250) and has since retired
\* both credits, while nobody else was credited
C18_Witness ==
    \E u \in Users :
        /\ userProfiles[u].totalCarbonOffset = 100
        /\ userProfiles[u].rewardMultiplier = 250
        /\ userProfiles[u].activeNFTCount = 0


(***************************************************************************)
(* Properties of authorization and of the link between the manager and    *)
(* the tracker, checked under SpecAdmin.                                   *)
(***************************************************************************)
\* every address that can send a transaction
Callers == Users \cup {Deployer, ManagerAddr, TrackerAddr}

\* C19: mintCarbonNFT called by any address but the configured
\* guardianOracle, and updateScore called by any address but the configured
\* greenRewardManager, the owner of the contracts included, is rejected and
\* changes no credit, profile, score or rank.
C19_SingleAuthorizedCaller ==
    /\ \A s \in Callers \ {guardianOracle}, r \in Users, t \in Tons,
          v \in VerificationIds, i \in Issuers, p \in ProjectIds :
          LET res == mintCarbonNFT(GreenState, s, r, t, v, i, p) IN
          ~res.ok /\ Execute(GreenState, res) = GreenState
    /\ \A s \in Callers \ {greenRewardManager}, u \in Users, t \in BoardTons :
          LET res == updateScore(BoardState, s, u, t) IN
          ~res.ok /\ Execute(BoardState, res) = BoardState

\* the owner has handed the oracle role to another account: that account's
\* submission is accepted while the owner's own, otherwise identical, is not,
\* and neither of them may call updateScore
C19_Witness ==
    /\ guardianOracle # Deployer
    /\ greenRewardManager = ManagerAddr
    /\ Len(carbonNFTs) = 1
    /\ \E r \in Users, v \in VerificationIds, i \in Issuers, p \in ProjectIds :
          /\ mintCarbonNFT(GreenState, guardianOracle, r, 1, v, i, p).ok
          /\ ~mintCarbonNFT(GreenState, Deployer, r, 1, v, i, p).ok
    /\ ~updateScore(BoardState, Deployer, 1, 1).ok
    /\ ~updateScore(BoardState, guardianOracle, 1, 1).ok

\* C20: each user's leaderboard score equals the total of their profile,
\* whatever sequence of mints and of setLeaderboardTracker and
\* setGreenRewardManager calls has run.
C20_ScoreFollowsProfile ==
    \A u \in Users :
        userScores[u].totalCarbonOffset = userProfiles[u].totalCarbonOffset


(***************************************************************************)
(* Properties of accrual and repayment, checked under Spec.                *)
(***************************************************************************)
\* the interest a call by this user has to charge, from the state the call
\* starts in
InterestDue(u) ==
    LET acc == userAccounts[u]
        rate == getBorrowRate(poolStats.totalDeposits, poolStats.totalBorrows)
    IN  IF acc.borrowed = 0 \/ now = acc.lastUpdateTime THEN 0
        ELSE (acc.borrowed * getAdjustedInterestRate(u, rate) * (now - acc.lastUpdateTime))
                 \div (365 * 100)

\* a step that is a committed transaction of the lending pool
PoolCommit(op) ==
    /\ now' = now /\ poolVars' # poolVars
    /\ lastTx'.op = op /\ lastTx'.ok

\* C22: in deposit, borrow, repay and withdraw the interest charged is
\* computed from the user's borrowed and the pool totals as they were when
\* the call began; what the call itself deposits, borrows, repays or
\* withdraws enters neither the principal nor the utilization.
C22_AccrueBeforeMutation ==
    /\ [](\A u \in Borrowers, a \in Amounts \cup RepayAmounts :
              LET acc == userAccounts[u]
                  owed == acc.accruedInterest + InterestDue(u) + acc.borrowed
                  d == deposit(PoolState, u, a)
                  b == borrow(PoolState, u, a, TRUE)
                  w == withdraw(PoolState, u, a, TRUE)
                  r == repay(PoolState, u, a, TRUE)
              IN  /\ d.ok => d.st.userAccounts[u].accruedInterest
                                 = acc.accruedInterest + InterestDue(u)
                  /\ b.ok => b.st.userAccounts[u].accruedInterest
                                 = acc.accruedInterest + InterestDue(u)
                  /\ w.ok => w.st.userAccounts[u].accruedInterest
                                 = acc.accruedInterest + InterestDue(u)
                  /\ r.ok => totalOwedOf(r.st.userAccounts[u]) = owed - Min(a, owed))
    /\ [][\A op \in {"deposit", "borrow", "withdraw"} :
              PoolCommit(op) =>
                  userAccounts'[lastTx'.user].accruedInterest
                      = userAccounts[lastTx'.user].accruedInterest + InterestDue(lastTx'.user)]_vars

\* a deposit by a user whose debt equalled the whole pool (utilization 100,
\* rate 30) has just been committed 50 years after the last accrual: the
\* interest of 30 is the one of the totals before the deposit halved the
\* utilization
C22_Witness ==
    /\ lastTx.op = "deposit" /\ lastTx.ok
    /\ userAccounts[lastTx.user].deposited = 4
    /\ userAccounts[lastTx.user].borrowed = 2
    /\ userAccounts[lastTx.user].accruedInterest = 30
    /\ poolStats.totalDeposits = 4

\* C24: a repay of a > 0 by a user owing I interest and B principal after
\* accrual, I + B > 0, pays p = min(a, I + B): min(p, I) off the interest,
\* the rest off borrowed and totalBorrows; reserveBalance grows by
\* floor(min(p, I) * 10 / 100); a - p is refunded; a >= I + B clears the
\* debt.  Without debt, or with a = 0, repay is rejected.
C24_RepaySplit ==
    \A u \in Borrowers, a \in RepayAmounts :
        LET debt == accrueInterest(PoolState, u).userAccounts[u]
            I == debt.accruedInterest
            B == debt.borrowed
            pay == IF a <= I + B THEN a ELSE I + B
            toInterest == IF pay <= I THEN pay ELSE I
            res == repay(PoolState, u, a, TRUE)
        IN  /\ res.ok <=> (a > 0 /\ I + B > 0)
            /\ res.ok =>
                  /\ res.st.userAccounts[u].accruedInterest = I - toInterest
                  /\ res.st.userAccounts[u].borrowed = B - (pay - toInterest)
                  /\ res.st.poolStats.totalBorrows
                         = poolStats.totalBorrows - (pay - toInterest)
                  /\ res.st.reserveBalance = reserveBalance + (toInterest * 10) \div 100
                  /\ res.st.balance = balance + pay
                  /\ res.st.userAccounts[u].deposited = userAccounts[u].deposited
                  /\ a >= I + B => /\ res.st.userAccounts[u].borrowed = 0
                                   /\ res.st.userAccounts[u].accruedInterest = 0

\* a repayment has cleared the interest, put a share of it in the reserve,
\* and paid off half of the principal
C24_Witness ==
    /\ lastTx.op = "repay" /\ lastTx.ok
    /\ userAccounts[lastTx.user].accruedInterest = 0
    /\ userAccounts[lastTx.user].borrowed = 1
    /\ reserveBalance > 0
    /\ poolStats.totalBorrows = 1

\* C30: no call fails through an arithmetic underflow or overflow; in
\* particular a withdraw by a user whose debt needs more collateral than
\* their deposit is rejected by the withdrawable-amount check.
C30_NoArithmeticFailure ==
    \A u \in Borrowers, a \in Amounts \cup RepayAmounts, ok \in BOOLEAN :
        /\ deposit(PoolState, u, a).err # "Panic: arithmetic underflow"
        /\ borrow(PoolState, u, a, ok).err # "Panic: arithmetic underflow"
        /\ repay(PoolState, u, a, ok).err # "Panic: arithmetic underflow"
        /\ withdraw(PoolState, u, a, ok).err # "Panic: arithmetic underflow"


(***************************************************************************)
(* Properties of discounted accrual, checked under SpecAccrual.            *)
(***************************************************************************)
\* floor(borrowed * adjustedRate * elapsed / (365 days * 100)) for a user
\* whose credits take pct percent off the pool's rate
DiscountedInterest(u, pct) ==
    LET rate == getBorrowRate(poolStats.totalDeposits, poolStats.totalBorrows)
        adjustedRate == rate - (rate * pct) \div 100
    IN  (userAccounts[u].borrowed * adjustedRate * (now - userAccounts[u].lastUpdateTime))
            \div (365 * 100)

\* C21: accrual for a user with borrowed > 0 and elapsed > 0 adds exactly
\* floor(borrowed * adjustedRate * elapsed / (365 days * 100)) to
\* accruedInterest, adjustedRate being the pool's rate less
\* floor(rate * discountPercent / 100); it sets lastUpdateTime to now and
\* leaves borrowed alone.
C21_AccrualFormula ==
    /\ [](\A u \in Borrowers :
              (userAccounts[u].borrowed > 0 /\ now - userAccounts[u].lastUpdateTime > 0) =>
                  LET after == accrueInterest(PoolState, u).userAccounts[u] IN
                  /\ after.accruedInterest = userAccounts[u].accruedInterest
                         + DiscountedInterest(u, ReductionPercentOf(u))
                  /\ after.lastUpdateTime = now
                  /\ after.borrowed = userAccounts[u].borrowed
                  /\ after.deposited = userAccounts[u].deposited)
    /\ [][\A op \in {"deposit", "withdraw"} :
              (/\ PoolCommit(op)
               /\ userAccounts[lastTx'.user].borrowed > 0
               /\ now - userAccounts[lastTx'.user].lastUpdateTime > 0) =>
                  /\ userAccounts'[lastTx'.user].accruedInterest
                         = userAccounts[lastTx'.user].accruedInterest
                               + DiscountedInterest(lastTx'.user, ReductionPercentOf(lastTx'.user))
                  /\ userAccounts'[lastTx'.user].lastUpdateTime = now
                  /\ userAccounts'[lastTx'.user].borrowed
                         = userAccounts[lastTx'.user].borrowed]_vars

\* a deposit by the holder of two active credits has just charged 50 years
\* of interest on a debt of 2 at utilization 100: rate 30 less 20 percent is
\* 24, which makes 24
C21_Witness ==
    /\ lastTx.op = "deposit" /\ lastTx.ok
    /\ userProfiles[lastTx.user].activeNFTCount = 2
    /\ userAccounts[lastTx.user].borrowed = 2
    /\ userAccounts[lastTx.user].accruedInterest = 24
    /\ userAccounts[lastTx.user].lastUpdateTime = now

\* C23: a mintCarbonNFT or retireNFT that changes a borrower's
\* activeNFTCount settles nothing in the pool, and the accrual that follows
\* charges the whole interval since lastUpdateTime, the part before the
\* credit change included, at the discount of the new activeNFTCount.
C23_DiscountAppliesToWholeInterval ==
    [][\A u \in Borrowers :
          (/\ userProfiles'[u].activeNFTCount # userProfiles[u].activeNFTCount
           /\ userAccounts[u].borrowed > 0
           /\ now - userAccounts[u].lastUpdateTime > 0) =>
              /\ userAccounts' = userAccounts /\ now' = now
              /\ (accrueInterest(PoolState, u).userAccounts[u].accruedInterest)'
                     = userAccounts[u].accruedInterest
                           + DiscountedInterest(u, ReductionPercentOf(u)')
              /\ (deposit(PoolState, u, 2).st.userAccounts[u].accruedInterest)'
                     = userAccounts[u].accruedInterest
                           + DiscountedInterest(u, ReductionPercentOf(u)')
      ]_vars

\* the second credit of a borrower was recorded 50 years after their last
\* accrual: the interest due for those 50 years has dropped from 7 to 6
C23_Witness ==
    /\ userAccounts[1].borrowed = 2 /\ userAccounts[1].deposited = 4
    /\ userAccounts[1].lastUpdateTime = 0 /\ now = 18250
    /\ userProfiles[1].activeNFTCount = 2
    /\ \E id \in 1..Len(carbonNFTs) : carbonNFTs[id].mintTimestamp = now
    /\ InterestDue(1) = 6


(***************************************************************************)
(* Properties of the rate model's configuration, checked under             *)
(* SpecConstruct and SpecFrame.                                            *)
(***************************************************************************)
\* C25: kink is within [0,100] in every reachable state, the constructed
\* one included, and updateModel with a kink above 100 is rejected and
\* leaves the four parameters as they were.
C25_KinkInRange ==
    /\ kink \in 0..100
    /\ \A base \in BaseRates, m \in Multipliers, j \in JumpMultipliers,
          k \in {x \in Kinks : x > 100} :
          LET res == updateModel(RateState, Deployer, base, m, j, k) IN
          ~res.ok /\ Execute(RateState, res) = RateState

\* C26: the four rate parameters change only in a successful updateModel
\* call by the owner: a call by anybody else is rejected, and no pool,
\* registry or tracker operation and no rate query changes them.
C26_OnlyOwnerUpdates ==
    /\ [](\A s \in Callers \ {Deployer}, base \in BaseRates, m \in Multipliers,
             j \in JumpMultipliers, k \in Kinks :
              LET res == updateModel(RateState, s, base, m, j, k) IN
              ~res.ok /\ Execute(RateState, res) = RateState)
    /\ [][rateVars' # rateVars =>
              /\ UNCHANGED <<now, poolVars, greenVars, boardVars, lastTx, lastCall>>
              /\ \E base \in BaseRates, m \in Multipliers, j \in JumpMultipliers,
                    k \in Kinks :
                    LET res == updateModel(RateState, Deployer, base, m, j, k) IN
                    res.ok /\ res.st = RateState']_vars
    /\ [][(poolVars' # poolVars \/ greenVars' # greenVars \/ boardVars' # boardVars
               \/ lastCall' # lastCall) => rateVars' = rateVars]_vars

\* the owner has replaced the parameters; since then the pool lent, a credit
\* was recorded and retired, and the borrow rate was asked for
C26_Witness ==
    /\ <<baseRatePerYear, multiplierPerYear, jumpMultiplierPerYear, kink>> = <<0, 10, 0, 50>>
    /\ poolStats.totalBorrows = 2
    /\ Len(carbonNFTs) = 1 /\ carbonNFTs[1].isRetired
    /\ lastCall.fn = "getBorrowRate" /\ lastCall.value = 5


\* a score update of the tracker committed in this step
ScoreCommitted == \E u \in Users : userScores'[u].nftCount # userScores[u].nftCount

\* C27: after every committed score update a RankChanged event is emitted
\* for each user whose rank differs from its value before the update: the
\* users shifted down and the user dropped from a full leaderboard as well
\* as the user whose score was updated.
C27_RankChangedForEveryUser ==
    [][ScoreCommitted =>
          \A u \in Users :
              userScores'[u].rank # userScores[u].rank =>
                  Event("RankChanged", u, userScores[u].rank, userScores'[u].rank)
                      \in events']_vars

\* C28: every committed mintCarbonNFT or retireNFT that changes a user's
\* min(activeNFTCount * 10, 50) emits InterestRateAdjusted for that user
\* next to the NFTMinted or NFTRetired event.
C28_RateAdjustedEmitted ==
    [][\A u \in Users :
          ReductionPercentOf(u)' # ReductionPercentOf(u) =>
              /\ \E e \in events' : e.name \in {"NFTMinted", "NFTRetired"} /\ e.user = u
              /\ \E e \in events' : e.name = "InterestRateAdjusted" /\ e.user = u]_vars


\* C29: ledger operations are serialized.  While a borrow, repay or withdraw
\* is at its outbound transfer the guard is set and every nested deposit,
\* borrow, repay or withdraw is rejected with the storage untouched; when the
\* call returns, the storage is what the call alone makes of the storage it
\* started from (or that storage, when the call is reverted).
C29_Serialized ==
    /\ [](pending.active <=> status = "ENTERED")
    /\ [](pending.active =>
            \A op \in PoolOps, u \in Users, a \in Amounts \cup RepayAmounts :
                LET res == enter(status, op, PoolState, u, a, TRUE) IN
                ~res.ok /\ res.err = "ReentrancyGuardReentrantCall"
                        /\ Execute(PoolState, res) = PoolState)
    /\ [][pending.active /\ pending'.active =>
              /\ poolVars' = poolVars
              /\ pending'.nested.op \in PoolOps /\ ~pending'.nested.ok]_vars
    /\ [][pending.active /\ ~pending'.active =>
              PoolState' \in {pending.pre,
                              poolCall(pending.op, pending.pre, pending.user,
                                       pending.amount, TRUE).st}]_vars

\* a withdrawal of 2 is at its transfer (the deposit already down from 4 to
\* 2) and the recipient has tried to withdraw again
C29_Witness ==
    /\ pending.active /\ pending.op = "withdraw" /\ pending.amount = 2
    /\ pending.pre.userAccounts[1].deposited = 4
    /\ userAccounts[1].deposited = 2
    /\ pending.nested = [op |-> "withdraw", ok |-> FALSE]


\* users a, b and c are the only ones credited, with 5, 50 and 120 tons
CreditedLadder(a, b, c) ==
    /\ totalUsers = 3
    /\ userScores[a].totalCarbonOffset = 5
    /\ userScores[b].totalCarbonOffset = 50
    /\ userScores[c].totalCarbonOffset = 120

\* C31: from an empty leaderboard, once three users are credited 5, 50 and
\* 120 tons (in any order) they hold badge tiers 2, 3 and 4 and ranks 3, 2
\* and 1.
C31_LadderExample ==
    \A a, b, c \in Users :
        CreditedLadder(a, b, c) =>
            /\ badgeOrdinal(userScores[a].badge) = 2
            /\ badgeOrdinal(userScores[b].badge) = 3
            /\ badgeOrdinal(userScores[c].badge) = 4
            /\ userScores[a].rank = 3 /\ userScores[b].rank = 2
            /\ userScores[c].rank = 1

\* C31 (amended): from an empty leaderboard, once three users are credited
\* 5, 50 and 120 tons (in any order) they hold badge tiers 1 (ECO_STARTER),
\* 3 (CLIMATE_HERO) and 4 (EARTH_GUARDIAN) and ranks 3, 2 and 1.
C31_LadderExampleAmended ==
    \A a, b, c \in Users :
        CreditedLadder(a, b, c) =>
            /\ userScores[a].badge = "ECO_STARTER"
            /\ userScores[b].badge = "CLIMATE_HERO"
            /\ userScores[c].badge = "EARTH_GUARDIAN"
            /\ userScores[a].rank = 3 /\ userScores[b].rank = 2
            /\ userScores[c].rank = 1
            /\ topContributors = <<c, b, a>>

\* user 3 was credited 5 tons, user 1 50 tons and user 2 120 tons, and the
\* tracker has ranked the three and given each its badge
C31_Witness ==
    /\ CreditedLadder(3, 1, 2)
    /\ topContributors = <<2, 1, 3>>
    /\ userScores[3].badge = "ECO_STARTER" /\ userScores[3].nftCount = 1


\* C32: the staking vault has no lock-up: in every reachable state a
\* staker's withdraw(amount) with 0 < amount <= their staked amount succeeds
\* and pays out amount.
C32_NoLockUp ==
    \A u \in Users :
        \A amount \in 1..stakes[u].amount :
            LET res == vaultWithdraw(VaultState, u, amount) IN
            /\ res.ok
            /\ res.st.stakes[u].amount = stakes[u].amount - amount
            /\ res.st.balance =
                   vaultBalance - amount
                       - (IF greenToken = ZeroAddress
                          THEN calculatePendingRewards(VaultState, u) ELSE 0)

\* C40: in every reachable state of the vault totalStaked is the sum of the
\* users' staked amounts and the vault's balance is at least totalStaked, so
\* fundProject's balance - totalStaked never underflows.
C40_PrincipalBacked ==
    /\ totalStaked = SumOver([u \in Users |-> stakes[u].amount], Users)
    /\ vaultBalance >= totalStaked
    /\ \A a \in StakeAmounts :
          fundProject(VaultState, Deployer, 1, a).err # "Panic: arithmetic underflow"


\* C33: when the user's borrowed is 0 as a ledger transition begins, its
\* accrual step adds no interest and sets lastUpdateTime to now; so a user
\* who deposited earlier and borrows for the first time now is charged
\* interest from now on only.
C33_NoDebtNoInterest ==
    /\ [](\A u \in Borrowers :
              userAccounts[u].borrowed = 0 =>
                  accrueInterest(PoolState, u) =
                      [PoolState EXCEPT !.userAccounts[u].lastUpdateTime = now])
    /\ [][\A op \in PoolOps, u \in Borrowers :
              (PoolCommit(op) /\ lastTx'.user = u /\ userAccounts[u].borrowed = 0) =>
                  /\ userAccounts'[u].accruedInterest = userAccounts[u].accruedInterest
                  /\ userAccounts'[u].lastUpdateTime = now
                  /\ InterestDue(u)' = 0]_vars

\* the user deposited at time 0 and borrowed for the first time 50 years
\* later: nothing was charged for the 50 years
C33_Witness ==
    /\ now = 18250 /\ lastTx.op = "borrow" /\ lastTx.ok
    /\ userAccounts[1].deposited = 4 /\ userAccounts[1].borrowed = 2
    /\ userAccounts[1].lastUpdateTime = 18250
    /\ userAccounts[1].accruedInterest = 0


\* the badge ladder as the claim states it
LadderBadge(totalOffset) ==
    CASE totalOffset = 0 -> "NONE"
      [] totalOffset \in 1..9 -> "ECO_STARTER"
      [] totalOffset \in 10..49 -> "GREEN_CHAMPION"
      [] totalOffset \in 50..99 -> "CLIMATE_HERO"
      [] totalOffset >= 100 -> "EARTH_GUARDIAN"

\* the tracker's storage with every badge erased
WithoutBadges(B) ==
    [B EXCEPT !.userScores = [u \in Users |-> [B.userScores[u] EXCEPT !.badge = "NONE"]]]

\* the ranking: the list and every user's rank
RankingOf(B) == <<B.topContributors, [u \in Users |-> B.userScores[u].rank]>>

\* C34: after every score update the user's badge is the ladder value of
\* their total offset, a badge never moves to a lower tier, and the ranking
\* an update produces is the same whatever badges the users hold.
C34_BadgeLadder ==
    /\ [](\A u \in Users : userScores[u].badge = LadderBadge(userScores[u].totalCarbonOffset))
    /\ [][\A u \in Users : badgeOrdinal(userScores'[u].badge)
                               >= badgeOrdinal(userScores[u].badge)]_vars
    /\ [](\A u \in Users, t \in LadderTons :
              LET res == updateScore(BoardState, ManagerAddr, u, t)
                  plain == updateScore(WithoutBadges(BoardState), ManagerAddr, u, t)
              IN  /\ res.ok /\ plain.ok
                  /\ RankingOf(res.st) = RankingOf(plain.st)
                  /\ res.st.userScores[u].badge
                         = LadderBadge(userScores[u].totalCarbonOffset + t))

\* user 1, second on the list with 5 tons, has been credited 5 more: the
\* badge went up to GREEN_CHAMPION and no rank changed
C34_Witness ==
    /\ userScores[1].totalCarbonOffset = 10 /\ userScores[1].nftCount = 2
    /\ userScores[1].badge = "GREEN_CHAMPION"
    /\ Event("BadgeAwarded", 1, 2, 0) \in events
    /\ \A e \in events : e.name # "RankChanged"
    /\ topContributors = <<2, 1>>


isTopContributor(user, topN) ==
    userScores[user].rank > 0 /\ userScores[user].rank <= topN

getRankMultiplier(user) ==
    LET rank == userScores[user].rank IN
    IF rank = 0 THEN 100
    ELSE IF rank = 1 THEN 200
    ELSE IF rank <= 3 THEN 175
    ELSE IF rank <= 10 THEN 150
    ELSE IF rank <= 50 THEN 125
    ELSE 100

\* getTopContributors(count): the first count entries of the list
getTopContributors(count) ==
    SubSeq(topContributors, 1, Min(count, Len(topContributors)))

\* C35: topContributors holds no address twice, the user at index i has
\* rank i + 1, and every user with a rank r > 0 is the entry at index r - 1;
\* so isTopContributor(user, n) holds exactly for the first n entries of
\* getTopContributors, and getRankMultiplier is 100 for a user not listed.
C35_ListMatchesRanks ==
    /\ \A i, j \in 1..Len(topContributors) :
           i # j => topContributors[i] # topContributors[j]
    /\ \A i \in 1..Len(topContributors) : userScores[topContributors[i]].rank = i
    /\ \A u \in Users :
           userScores[u].rank > 0 =>
               /\ userScores[u].rank <= Len(topContributors)
               /\ topContributors[userScores[u].rank] = u
    /\ \A u \in Users, n \in 0..LEADERBOARD_SIZE :
           isTopContributor(u, n) <=> u \in Listed(getTopContributors(n))
    /\ \A u \in Users \ Listed(topContributors) : getRankMultiplier(u) = 100


\* LendingPool.getUtilizationRate
poolUtilizationRate ==
    IF poolStats.totalDeposits = 0 THEN 0
    ELSE (poolStats.totalBorrows * 100) \div poolStats.totalDeposits

\* C36: each user's borrowed is at most their deposited, hence totalBorrows
\* is at most totalDeposits, getUtilizationRate() is at most 100, and the
\* accrual step of no ledger operation asks the rate model for a rate at a
\* utilization above 100 percent.
C36_BorrowedWithinDeposited ==
    /\ \A u \in Users : userAccounts[u].borrowed <= userAccounts[u].deposited
    /\ poolStats.totalBorrows <= poolStats.totalDeposits
    /\ poolUtilizationRate <= 100
    /\ getUtilizationRate(poolStats.totalDeposits, poolStats.totalBorrows) <= 100

\* a user has borrowed, then withdrawn all the collateral the pool lets go:
\* the debt equals the deposit and the pool is fully lent
C36_Witness ==
    /\ userAccounts[1].deposited = 2 /\ userAccounts[1].borrowed = 2
    /\ lastTx.op = "withdraw" /\ lastTx.ok /\ lastTx.user = 1
    /\ poolStats.totalDeposits = 2 /\ poolUtilizationRate = 100


getUserDebt(L, user) ==
    LET account == L.userAccounts[user] IN
    IF account.borrowed = 0 THEN 0
    ELSE LET timeElapsed == now - account.lastUpdateTime
             baseRate == getBorrowRate(L.poolStats.totalDeposits, L.poolStats.totalBorrows)
             adjustedRate == getAdjustedInterestRate(user, baseRate)
             pendingInterest == (account.borrowed * adjustedRate * timeElapsed)
                                    \div (DAYS_PER_YEAR * 100)
         IN account.borrowed + account.accruedInterest + pendingInterest

\* C37: getUserDebt(user) is the borrowed + accruedInterest the user's
\* account holds right after the accrual step of a ledger operation begun
\* now; it is 0 exactly when the user owes nothing; and accruedInterest > 0
\* implies borrowed > 0.
C37_DebtViewMatchesAccrual ==
    \A u \in Borrowers :
        /\ getUserDebt(PoolState, u)
               = totalOwedOf(accrueInterest(PoolState, u).userAccounts[u])
        /\ getUserDebt(PoolState, u) = 0 <=> totalOwedOf(userAccounts[u]) = 0
        /\ userAccounts[u].accruedInterest > 0 => userAccounts[u].borrowed > 0

\* a borrower with two active credits who already owes interest is asked
\* about 50 years after their last ledger operation
C37_Witness ==
    /\ userAccounts[1].borrowed = 2 /\ userAccounts[1].accruedInterest > 0
    /\ now = userAccounts[1].lastUpdateTime + 18250
    /\ userProfiles[1].activeNFTCount = 2
    /\ getUserDebt(PoolState, 1) > totalOwedOf(userAccounts[1])


\* C38: with value entering the pool through deposit and repay only, the
\* pool's balance is totalDeposits - totalBorrows plus the interest paid
\* through repay so far, reserveBalance is at most 10 percent of that
\* interest, and so balance - reserveBalance >= totalDeposits - totalBorrows.
C38_BalanceAccounting ==
    /\ balance = poolStats.totalDeposits - poolStats.totalBorrows + totalInterestPaid
    /\ reserveBalance * 100 <= totalInterestPaid * RESERVE_FACTOR
    /\ balance - reserveBalance >= poolStats.totalDeposits - poolStats.totalBorrows

\* interest has been paid and a loan is still out: the pool holds more than
\* deposits less loans, and part of the difference is reserve
C38_Witness ==
    /\ totalInterestPaid >= 10 /\ reserveBalance >= 1
    /\ poolStats.totalBorrows > 0
    /\ balance = poolStats.totalDeposits - poolStats.totalBorrows + totalInterestPaid


\* C39: with the principal and the adjusted rate unchanged, an accrual at
\* the earlier of two blocks followed by an accrual at the later one adds no
\* more interest than one accrual at the later block, and at most 1 unit
\* less.
C39_SplitAccrual ==
    [][now' > now =>
          \A u \in Borrowers :
              \A first \in {accrueInterest(PoolState, u)} :
                  LET two == accrueInterest(first, u)'.userAccounts[u]
                      one == accrueInterest(PoolState, u)'.userAccounts[u]
                  IN  /\ two.accruedInterest <= one.accruedInterest
                      /\ one.accruedInterest - two.accruedInterest <= 1
                      /\ two.lastUpdateTime = one.lastUpdateTime
                      /\ two.borrowed = one.borrowed]_vars

\* a debt of 2 at 7 percent, last accrued 4000 days ago: one accrual now
\* adds 1, an accrual after 2000 days and another now would have added 0
C39_Witness ==
    /\ userAccounts[1].borrowed = 2
    /\ now - userAccounts[1].lastUpdateTime = 4000
    /\ InterestDue(1) = 1
    /\ interestFor(2, 7, 2000) + interestFor(2, 7, 2000) = 0

=============================================================================
